---- MODULE Spec2Model ----
\* A model of the multicore CPU scheduling simulator: the engine
\* (scheduler_simulator.py), the process and core entities (core/process.py,
\* core/cpu.py) and the scheduling policies (algorithms/*.py).
\*
\* Simulated time, burst times and priorities are integers.  The aging factor
\* 0.1 of the priority policy is kept exact by comparing effective priorities
\* scaled by AgingScale (10 * priority - wait_time).
\* Python's None is NoneVal; a dictionary that may lack a key is a function
\* whose value is NoneVal at the missing keys.
EXTENDS Integers, Sequences, FiniteSets, TLC

\* ------------------------------------------------------------------ bounds
\* Number of processes added to the simulator before a run.
NumProcs == 3
\* Largest distance between the arrival times of two consecutive processes.
MaxGap == 1
\* Largest burst time of a process.
MaxBurst == 3
\* Largest core count of a simulator.
MaxCores == 2
\* The max_time argument of the bounded runs.
MaxTimeBound == 2
\* The time_quantum argument given to a standalone RoundRobinScheduler.
SmallQuantum == 2
\* The adaptation_interval argument given to the AdaptiveScheduler.
ShortInterval == 2
\* calls of run_simulation on one simulator
MaxRuns == 2
TieCores == 3          \* cores of the work-stealing scenario
\* Largest number of direct calls made on one scheduler object.
MaxCalls == 4

\* ------------------------------------------------------- program constants
NoneVal == -1
Infinity == 1000000
RRDefaultQuantum == 4
PreemptiveQuantum == 1
LoadBalancingQuantum == 5
WorkStealingQuantum == 10
StealAttempts == 3
AgingScale == 10
RebalanceScale == 10
RebalanceThreshold == 3
ShortJobLimit == 10
LongJobLimit == 50
RecentLimit == 20

PolicyNames == {"fcfs", "sjf", "round_robin", "priority", "load_balancing", "work_stealing"}

\* ------------------------------------------------------------------- state
VARIABLES
    num_cores,              \* MulticoreSchedulerSimulator.num_cores
    scheduler,              \* the scheduler object's constructor arguments
    max_time,               \* run_simulation's argument (NoneVal: unbounded)
    procs,                  \* pid -> the fields of the Process object
    cores,                  \* core id -> the fields of the CPUCore object
    sched,                  \* the mutable state of the scheduler object(s)
    all_processes,          \* list of pids
    ready_queue,            \* list of pids
    completed_processes,    \* list of pids
    current_time,
    total_context_switches,
    process_index,          \* local of run_simulation
    time_quantum,           \* local of _execute_all_cores
    min_time_slice,         \* local of _execute_all_cores
    pc,                     \* position in run_simulation
    ci,                     \* the core the for-loops over self.cores are at
    metrics,                \* MulticoreSchedulerSimulator.metrics
    runs_left,              \* how many more run_simulation calls the caller makes
    events,                 \* history: every assignment and every execute call
    results                 \* history: the metrics every finished run returned

vars == <<num_cores, scheduler, max_time, procs, cores, sched, all_processes,
          ready_queue, completed_processes, current_time, total_context_switches,
          process_index, time_quantum, min_time_slice, pc, ci, metrics, runs_left,
          events, results>>

Pids == DOMAIN procs
CoreIds == 0 .. (num_cores - 1)

\* ------------------------------------------------------------ list helpers
Min2(a, b) == IF a <= b THEN a ELSE b
Max2(a, b) == IF a >= b THEN a ELSE b

InList(x, s) == \E i \in 1..Len(s) : s[i] = x

\* list.remove(x): drops the first occurrence (the callers test membership first).
RemoveFirst(s, x) ==
    IF ~InList(x, s) THEN s
    ELSE LET i == CHOOSE k \in 1..Len(s) : s[k] = x /\ \A j \in 1..(k-1) : s[j] /= x
         IN SubSeq(s, 1, i - 1) \o SubSeq(s, i + 1, Len(s))

\* tuple comparison a < b of two keys of the same length
LexLess(a, b) ==
    \E i \in 1..Len(a) : a[i] < b[i] /\ \A j \in 1..(i-1) : a[j] = b[j]

\* list.sort(key=...) is stable: x goes behind every entry whose key is <= its key.
SortedInsert(s, x, key) ==
    LET n == Cardinality({i \in 1..Len(s) : ~LexLess(key[x], key[s[i]])})
    IN SubSeq(s, 1, n) \o <<x>> \o SubSeq(s, n + 1, Len(s))

RECURSIVE StableSort(_, _)
StableSort(s, key) ==
    IF s = <<>> THEN <<>>
    ELSE SortedInsert(StableSort(SubSeq(s, 1, Len(s) - 1), key), s[Len(s)], key)

RECURSIVE SumList(_, _)
SumList(s, val) ==
    IF s = <<>> THEN 0 ELSE val[s[1]] + SumList(Tail(s), val)

RECURSIVE SumOver(_, _)
SumOver(S, val) ==
    IF S = {} THEN 0
    ELSE LET x == CHOOSE y \in S : TRUE IN val[x] + SumOver(S \ {x}, val)

\* ----------------------------------------------------------------- Process
\* Process.__init__
NewProcess(arrival, burst, prio, ptype) ==
    [arrival_time |-> arrival, burst_time |-> burst, priority |-> prio,
     process_type |-> ptype, remaining_time |-> burst, state |-> "new",
     start_time |-> NoneVal, completion_time |-> NoneVal,
     waiting_time |-> 0, turnaround_time |-> 0, response_time |-> 0,
     executed_on_core |-> NoneVal, context_switches |-> 0]

\* Process.is_completed
IsCompleted(p) == p.state = "terminated"

\* The first half of Process.execute: the first-start bookkeeping.
\* Variant of ExecuteStart that stamps start_time and response_time at every
\* slice instead of only the first one (drops the "start_time is None" test).
ExecuteStartEverySlice(p, now) ==
    IF p.state = "new" \/ p.state = "ready"
    THEN [p EXCEPT !.start_time = now,
                   !.response_time = now - p.arrival_time,
                   !.state = "running"]
    ELSE p

ExecuteStart(p, now) ==
    IF p.state = "new" \/ p.state = "ready"
    THEN IF p.start_time = NoneVal
         THEN [p EXCEPT !.start_time = now,
                        !.response_time = now - p.arrival_time,
                        !.state = "running"]
         ELSE [p EXCEPT !.state = "running"]
    ELSE p

\* Variant of ActualTime that consumes the whole slice (drops the min).
ActualTimeWholeSlice(p, time_slice) == time_slice

\* min(time_slice, self.remaining_time)
ActualTime(p, time_slice) == Min2(time_slice, p.remaining_time)

\* Variant of Process.execute that sends an unfinished process back to NEW
\* instead of READY after its slice.
ProcessExecuteBackToNew(p, time_slice, now, core_id) ==
    LET p1 == ExecuteStart(p, now)
        p2 == [p1 EXCEPT !.context_switches =
                            IF p1.executed_on_core /= NoneVal /\ p1.executed_on_core /= core_id
                            THEN @ + 1 ELSE @,
                         !.executed_on_core = core_id]
        actual == Min2(time_slice, p2.remaining_time)
        p3 == [p2 EXCEPT !.remaining_time = @ - actual]
    IN IF p3.remaining_time <= 0
       THEN [p3 EXCEPT !.state = "terminated",
                       !.completion_time = now + actual,
                       !.turnaround_time = (now + actual) - p3.arrival_time,
                       !.waiting_time = ((now + actual) - p3.arrival_time) - p3.burst_time]
       ELSE [p3 EXCEPT !.state = "new"]

\* Process.execute: the process after the call (the call returns ActualTime).
ProcessExecute(p, time_slice, now, core_id) ==
    LET p1 == ExecuteStart(p, now)
        p2 == [p1 EXCEPT !.context_switches =
                            IF p1.executed_on_core /= NoneVal /\ p1.executed_on_core /= core_id
                            THEN @ + 1 ELSE @,
                         !.executed_on_core = core_id]
        actual == ActualTime(p2, time_slice)
        p3 == [p2 EXCEPT !.remaining_time = @ - actual]
    IN IF p3.remaining_time <= 0
       THEN [p3 EXCEPT !.state = "terminated",
                       !.completion_time = now + actual,
                       !.turnaround_time = (now + actual) - p3.arrival_time,
                       !.waiting_time = ((now + actual) - p3.arrival_time) - p3.burst_time]
       ELSE [p3 EXCEPT !.state = "ready"]

\* ----------------------------------------------------------------- CPUCore
\* CPUCore.__init__ and CPUCore.reset
NewCore ==
    [current_process |-> NoneVal, total_busy_time |-> 0, total_idle_time |-> 0,
     processes_executed |-> 0, last_update_time |-> 0, is_busy |-> FALSE,
     current_load |-> 0]

\* CPUCore.is_idle
IsIdle(c) == ~c.is_busy \/ c.current_process = NoneVal

\* CPUCore._update_metrics
UpdateMetrics(c, now) ==
    LET elapsed == now - c.last_update_time
    IN IF c.is_busy
       THEN [c EXCEPT !.total_busy_time = @ + elapsed, !.last_update_time = now]
       ELSE [c EXCEPT !.total_idle_time = @ + elapsed, !.last_update_time = now]

\* CPUCore.assign_process; ps is the process table (for is_completed)
AssignProcess(c, pid, now, ps) ==
    LET c1 == IF c.current_process /= NoneVal /\ ~IsCompleted(ps[c.current_process])
              THEN UpdateMetrics(c, now) ELSE c
    IN [c1 EXCEPT !.current_process = pid, !.is_busy = TRUE,
                  !.last_update_time = now, !.processes_executed = @ + 1]

\* CPUCore.execute_current_process, for a core that holds a process:
\* the core after the call; p is the process after Process.execute.
CoreAfterExecute(c, p, actual, now) ==
    LET c1 == [c EXCEPT !.total_busy_time = @ + actual,
                        !.last_update_time = now + actual,
                        !.current_load = IF IsCompleted(p) THEN 0 ELSE p.remaining_time]
    IN IF IsCompleted(p)
       THEN [c1 EXCEPT !.current_process = NoneVal, !.is_busy = FALSE]
       ELSE c1

\* Variant of preempt_current_process that leaves the process on the core.
PreemptKeepsProcess(c, now) == UpdateMetrics(c, now)

\* CPUCore.preempt_current_process, for a core that holds a process.
PreemptCurrentProcess(c, now) ==
    [UpdateMetrics(c, now) EXCEPT !.current_process = NoneVal, !.is_busy = FALSE,
                                  !.current_load = 0]

\* ------------------------------------------------------ scheduling policies
\* The scheduler objects' mutable state after construction and after reset():
\* RoundRobinScheduler.rr_queue, PriorityScheduler.process_wait_times,
\* LoadBalancingScheduler.core_loads / process_assignments (core_loads.get(c, 0)
\* reads a missing key as 0), WorkStealingScheduler.core_queues /
\* process_core_map / global_queue, and the AdaptiveScheduler's own fields.
NewSched(pids, cids) ==
    [rr_queue |-> <<>>,
     process_wait_times |-> [p \in pids |-> NoneVal],
     core_loads |-> [c \in cids |-> 0],
     process_assignments |-> [p \in pids |-> NoneVal],
     core_queues |-> [c \in cids |-> <<>>],
     process_core_map |-> [p \in pids |-> NoneVal],
     global_queue |-> <<>>,
     current_scheduler_name |-> "load_balancing",
     last_adaptation_time |-> 0,
     system_state_history |-> <<>>,
     workload_history |-> <<>>,
     algorithm_usage |-> [n \in PolicyNames |-> 0],
     algorithm_performance |-> [n \in PolicyNames |-> <<>>],
     recent_turnaround_times |-> <<>>]

\* The constructor arguments of a scheduler object.
SchedulerConfig(kind, preemptive, aging, quantum, interval) ==
    [kind |-> kind, preemptive |-> preemptive, aging |-> aging,
     time_quantum |-> quantum, adaptation_interval |-> interval]

\* AdaptiveScheduler.__init__: the six schedulers it owns.
AdaptiveSub(name) ==
    CASE name = "sjf" -> SchedulerConfig("sjf", TRUE, FALSE, NoneVal, NoneVal)
      [] name = "round_robin" -> SchedulerConfig("round_robin", FALSE, FALSE, RRDefaultQuantum, NoneVal)
      [] name = "priority" -> SchedulerConfig("priority", TRUE, TRUE, NoneVal, NoneVal)
      [] OTHER -> SchedulerConfig(name, FALSE, FALSE, NoneVal, NoneVal)

\* The concrete scheduler that answers a call: the scheduler itself, or the
\* AdaptiveScheduler's current_scheduler.
Active(cfg, st) ==
    IF cfg.kind = "adaptive" THEN AdaptiveSub(st.current_scheduler_name) ELSE cfg

SelectResult(sel, rq, st) == [sel |-> sel, rq |-> rq, sched |-> st]

\* Variant of FCFSScheduler.select_process that serves the latest arrival
\* first (sorts by descending arrival time).
FCFSSelectLatestFirst(st, rq, ps) ==
    IF rq = <<>> THEN SelectResult(NoneVal, rq, st)
    ELSE LET sorted == StableSort(rq, [p \in DOMAIN ps |-> <<0 - ps[p].arrival_time, p>>])
         IN SelectResult(sorted[1], sorted, st)

\* FCFSScheduler.select_process
FCFSSelect(st, rq, ps) ==
    IF rq = <<>> THEN SelectResult(NoneVal, rq, st)
    ELSE LET sorted == StableSort(rq, [p \in DOMAIN ps |-> <<ps[p].arrival_time, p>>])
         IN SelectResult(sorted[1], sorted, st)

\* Variant of SJFScheduler.select_process that ignores remaining_time (sorts
\* by arrival time and pid only).
SJFSelectByArrival(st, rq, ps) ==
    IF rq = <<>> THEN SelectResult(NoneVal, rq, st)
    ELSE LET sorted == StableSort(rq, [p \in DOMAIN ps |-> <<ps[p].arrival_time, p>>])
         IN SelectResult(sorted[1], sorted, st)

\* SJFScheduler.select_process
SJFSelect(st, rq, ps) ==
    IF rq = <<>> THEN SelectResult(NoneVal, rq, st)
    ELSE LET sorted == StableSort(rq, [p \in DOMAIN ps |->
                                         <<ps[p].remaining_time, ps[p].arrival_time, p>>])
         IN SelectResult(sorted[1], sorted, st)

\* SJFScheduler.should_preempt
SJFShouldPreempt(d, cur, rq, ps) ==
    IF ~d.preemptive \/ rq = <<>> THEN FALSE
    ELSE \E i \in 1..Len(rq) : ps[rq[i]].remaining_time < ps[cur].remaining_time

\* RoundRobinScheduler.select_process, its first loop: ready processes that
\* are not in rr_queue are appended in ready-queue order.
RECURSIVE AppendNew(_, _)
AppendNew(q, rq) ==
    IF rq = <<>> THEN q
    ELSE AppendNew(IF InList(rq[1], q) THEN q ELSE Append(q, rq[1]), Tail(rq))

\* Variant of RoundRobinScheduler.select_process that pops the process it
\* returns from rr_queue.
RRSelectPops(st, rq) ==
    LET q == AppendNew(st.rr_queue, rq)
    IN IF q = <<>> THEN SelectResult(NoneVal, rq, [st EXCEPT !.rr_queue = q])
       ELSE SelectResult(q[1], rq, [st EXCEPT !.rr_queue = Tail(q)])

\* RoundRobinScheduler.select_process
RRSelect(st, rq) ==
    LET q == AppendNew(st.rr_queue, rq)
        st1 == [st EXCEPT !.rr_queue = q]
    IN IF q = <<>> THEN SelectResult(NoneVal, rq, st1)
       ELSE SelectResult(q[1], rq, st1)

\* Variant of RoundRobinScheduler.rotate_queue that leaves the process at the
\* head of rr_queue.
RotateQueueKeepsHead(st, pid, ps) == st

\* RoundRobinScheduler.rotate_queue
RotateQueue(st, pid, ps) ==
    IF InList(pid, st.rr_queue)
    THEN LET q == RemoveFirst(st.rr_queue, pid)
         IN [st EXCEPT !.rr_queue = IF ~IsCompleted(ps[pid]) THEN Append(q, pid) ELSE q]
    ELSE st

\* RoundRobinScheduler.on_process_completion
RROnCompletion(st, pid) ==
    [st EXCEPT !.rr_queue = RemoveFirst(@, pid)]

\* Variant of PriorityScheduler._get_effective_priority that ignores the
\* wait.
EffectivePriorityStatic(d, p, wait_start, now) == AgingScale * p.priority

\* PriorityScheduler._get_effective_priority, times AgingScale; wt is
\* process_wait_times after the call's own insertion of a missing entry.
EffectivePriority(d, p, wait_start, now) ==
    IF ~d.aging THEN AgingScale * p.priority
    ELSE Max2(0, AgingScale * p.priority - (now - wait_start))

\* process_wait_times after _get_effective_priority ran for the pids of S.
TrackWait(d, wt, S, ps) ==
    IF ~d.aging THEN wt
    ELSE [p \in DOMAIN wt |-> IF p \in S /\ wt[p] = NoneVal THEN ps[p].arrival_time ELSE wt[p]]

\* PriorityScheduler._apply_aging
ApplyAging(wt, rq, now) ==
    [p \in DOMAIN wt |-> IF InList(p, rq) /\ wt[p] = NoneVal THEN now ELSE wt[p]]

\* Variant of PriorityScheduler.select_process that takes the selected process
\* out of the ready queue itself.
PrioritySelectPops(d, st, rq, now, ps) ==
    IF rq = <<>> THEN SelectResult(NoneVal, rq, st)
    ELSE LET wt == IF d.aging THEN ApplyAging(st.process_wait_times, rq, now)
                   ELSE st.process_wait_times
             sorted == StableSort(rq, [p \in DOMAIN ps |->
                          <<EffectivePriority(d, ps[p], wt[p], now), ps[p].arrival_time, p>>])
         IN SelectResult(sorted[1], Tail(sorted), [st EXCEPT !.process_wait_times = wt])

\* PriorityScheduler.select_process
PrioritySelect(d, st, rq, now, ps) ==
    IF rq = <<>> THEN SelectResult(NoneVal, rq, st)
    ELSE LET wt == IF d.aging THEN ApplyAging(st.process_wait_times, rq, now)
                   ELSE st.process_wait_times
             sorted == StableSort(rq, [p \in DOMAIN ps |->
                          <<EffectivePriority(d, ps[p], wt[p], now), ps[p].arrival_time, p>>])
         IN SelectResult(sorted[1], sorted, [st EXCEPT !.process_wait_times = wt])

\* PriorityScheduler.should_preempt: [preempt, sched]
PriorityShouldPreempt(d, st, cur, rq, now, ps) ==
    IF ~d.preemptive \/ rq = <<>> THEN [preempt |-> FALSE, sched |-> st]
    ELSE LET wt == TrackWait(d, st.process_wait_times,
                             {cur} \cup {rq[i] : i \in 1..Len(rq)}, ps)
             current_priority == EffectivePriority(d, ps[cur], wt[cur], now)
         IN [preempt |-> \E i \in 1..Len(rq) :
                            EffectivePriority(d, ps[rq[i]], wt[rq[i]], now) < current_priority,
             sched |-> [st EXCEPT !.process_wait_times = wt]]

\* PriorityScheduler.on_process_arrival
PriorityOnArrival(st, pid, now) ==
    [st EXCEPT !.process_wait_times[pid] = now]

\* PriorityScheduler.on_process_completion
PriorityOnCompletion(st, pid) ==
    [st EXCEPT !.process_wait_times[pid] = NoneVal]

\* The first entry of s with the least key (what a stable sort puts first).
FirstMin(s, key) ==
    s[CHOOSE i \in 1..Len(s) :
        /\ \A j \in 1..Len(s) : ~LexLess(key[s[j]], key[s[i]])
        /\ \A j \in 1..(i-1) : LexLess(key[s[i]], key[s[j]])]

\* LoadBalancingScheduler._try_rebalance; load is requesting_core.get_load()
TryRebalance(st, core_id, load, rq, ps) ==
    LET Diff(p) == st.core_loads[st.process_assignments[p]] - load
        candidates == SelectSeq(rq, LAMBDA p :
                         /\ st.process_assignments[p] /= NoneVal
                         /\ RebalanceScale * Diff(p) >
                              RebalanceThreshold * st.core_loads[st.process_assignments[p]])
    IN IF candidates = <<>> THEN SelectResult(NoneVal, rq, st)
       ELSE LET stolen == FirstMin(candidates, [p \in DOMAIN ps |->
                                        IF st.process_assignments[p] = NoneVal THEN <<0>>
                                        ELSE <<0 - Diff(p)>>])
                old_core == st.process_assignments[stolen]
                loads1 == [st.core_loads EXCEPT
                              ![old_core] = Max2(0, @ - ps[stolen].remaining_time)]
                loads2 == [loads1 EXCEPT ![core_id] = @ + ps[stolen].remaining_time]
            IN SelectResult(stolen, rq,
                    [st EXCEPT !.process_assignments[stolen] = core_id,
                               !.core_loads = loads2])

\* Variant of LoadBalancingScheduler.select_process that looks at the
\* unassigned processes before the ones assigned to the core.
LBSelectUnassignedFirst(st, core_id, load, rq, ps) ==
    LET key == [p \in DOMAIN ps |-> <<ps[p].remaining_time, ps[p].arrival_time>>]
        assigned == SelectSeq(rq, LAMBDA p : st.process_assignments[p] = core_id)
        unassigned == SelectSeq(rq, LAMBDA p : st.process_assignments[p] = NoneVal)
    IN IF rq = <<>> THEN SelectResult(NoneVal, rq, st)
       ELSE IF unassigned /= <<>>
       THEN LET selected == FirstMin(unassigned, key)
            IN SelectResult(selected, rq,
                    [st EXCEPT !.process_assignments[selected] = core_id,
                               !.core_loads[core_id] = @ + ps[selected].remaining_time])
       ELSE IF assigned /= <<>> THEN SelectResult(FirstMin(assigned, key), rq, st)
       ELSE TryRebalance(st, core_id, load, rq, ps)

\* LoadBalancingScheduler.select_process
LBSelect(st, core_id, load, rq, ps) ==
    LET key == [p \in DOMAIN ps |-> <<ps[p].remaining_time, ps[p].arrival_time>>]
        assigned == SelectSeq(rq, LAMBDA p : st.process_assignments[p] = core_id)
        unassigned == SelectSeq(rq, LAMBDA p : st.process_assignments[p] = NoneVal)
    IN IF rq = <<>> THEN SelectResult(NoneVal, rq, st)
       ELSE IF assigned /= <<>> THEN SelectResult(FirstMin(assigned, key), rq, st)
       ELSE IF unassigned /= <<>>
       THEN LET selected == FirstMin(unassigned, key)
            IN SelectResult(selected, rq,
                    [st EXCEPT !.process_assignments[selected] = core_id,
                               !.core_loads[core_id] = @ + ps[selected].remaining_time])
       ELSE TryRebalance(st, core_id, load, rq, ps)

\* LoadBalancingScheduler.on_process_completion
LBOnCompletion(st, pid, ps) ==
    IF st.process_assignments[pid] /= NoneVal
    THEN [st EXCEPT !.core_loads[st.process_assignments[pid]] = Max2(0, @ - ps[pid].burst_time),
                    !.process_assignments[pid] = NoneVal]
    ELSE st

\* Variant of MinQueueCore that takes the highest core id among the shortest
\* queues.
MinQueueCoreHighestId(queues) ==
    CHOOSE c \in DOMAIN queues :
        /\ \A d \in DOMAIN queues : Len(queues[c]) <= Len(queues[d])
        /\ \A d \in DOMAIN queues : Len(queues[d]) = Len(queues[c]) => c >= d

\* min(self.core_queues.keys(), key=lambda c: len(self.core_queues[c]))
MinQueueCore(queues) ==
    CHOOSE c \in DOMAIN queues :
        /\ \A d \in DOMAIN queues : Len(queues[c]) <= Len(queues[d])
        /\ \A d \in DOMAIN queues : Len(queues[d]) = Len(queues[c]) => c <= d

\* WorkStealingScheduler._distribute_new_processes, its while loop.
RECURSIVE DrainGlobal(_)
DrainGlobal(st) ==
    IF st.global_queue = <<>> THEN st
    ELSE LET c == MinQueueCore(st.core_queues)
             p == st.global_queue[1]
         IN DrainGlobal([st EXCEPT !.global_queue = Tail(@),
                                   !.core_queues[c] = Append(@, p),
                                   !.process_core_map[p] = c])

\* WorkStealingScheduler._distribute_new_processes
DistributeNewProcesses(st, rq) ==
    LET new_processes == SelectSeq(rq, LAMBDA p :
                            st.process_core_map[p] = NoneVal /\ ~InList(p, st.global_queue))
    IN DrainGlobal([st EXCEPT !.global_queue = @ \o new_processes])

\* Variant of WorkStealingScheduler._steal_work that steals from a victim
\* with a single entry too.
StealWorkLastEntry(st, thief, shuffled, rq) ==
    LET cores_to_check == SubSeq(shuffled, 1, Min2(StealAttempts, Len(shuffled)))
        Size(i) == Len(st.core_queues[cores_to_check[i]])
        best == {i \in 1..Len(cores_to_check) :
                    /\ Size(i) > 0
                    /\ \A j \in 1..Len(cores_to_check) : Size(j) <= Size(i)
                    /\ \A j \in 1..(i-1) : Size(j) < Size(i)}
    IN IF best = {} THEN SelectResult(NoneVal, rq, st)
       ELSE LET victim == cores_to_check[CHOOSE i \in best : TRUE]
                q == st.core_queues[victim]
            IN SelectResult(q[Len(q)], rq,
                    [st EXCEPT !.core_queues[victim] = SubSeq(q, 1, Len(q) - 1),
                               !.process_core_map[q[Len(q)]] = thief])

\* WorkStealingScheduler._steal_work; shuffled is potential_victims after
\* random.shuffle.
StealWork(st, thief, shuffled, rq) ==
    LET cores_to_check == SubSeq(shuffled, 1, Min2(StealAttempts, Len(shuffled)))
        Size(i) == Len(st.core_queues[cores_to_check[i]])
        best == {i \in 1..Len(cores_to_check) :
                    /\ Size(i) > 0
                    /\ \A j \in 1..Len(cores_to_check) : Size(j) <= Size(i)
                    /\ \A j \in 1..(i-1) : Size(j) < Size(i)}
    IN IF best = {} THEN SelectResult(NoneVal, rq, st)
       ELSE LET victim == cores_to_check[CHOOSE i \in best : TRUE]
                q == st.core_queues[victim]
            IN IF Len(q) >= 2
               THEN SelectResult(q[Len(q)], rq,
                        [st EXCEPT !.core_queues[victim] = SubSeq(q, 1, Len(q) - 1),
                                   !.process_core_map[q[Len(q)]] = thief])
               ELSE SelectResult(NoneVal, rq, st)

\* WorkStealingScheduler.select_process
WSSelect(st, core_id, shuffled, rq) ==
    LET st1 == DistributeNewProcesses(st, rq)
        q == st1.core_queues[core_id]
    IN IF q /= <<>>
       THEN SelectResult(q[1], rq, [st1 EXCEPT !.core_queues[core_id] = Tail(q)])
       ELSE StealWork(st1, core_id, shuffled, rq)

\* WorkStealingScheduler.on_process_completion
WSOnCompletion(st, pid) ==
    [st EXCEPT !.process_core_map[pid] = NoneVal,
               !.core_queues = [c \in DOMAIN @ |-> RemoveFirst(@[c], pid)]]

\* The orders random.shuffle can leave potential_victims in.
Shuffles(S) ==
    {s \in [1..Cardinality(S) -> S] : \A i, j \in 1..Cardinality(S) : i /= j => s[i] /= s[j]}

\* AdaptiveScheduler._analyze_system_state
AnalyzeSystemState(rq, n) ==
    IF Len(rq) < n THEN "low_load"
    ELSE IF Len(rq) < 3 * n THEN "medium_load"
    ELSE "high_load"

\* Variant of _analyze_workload whose ratio tests are >= 0.6.
AnalyzeWorkloadAtLeast(rq, ps) ==
    LET cpu == Len(SelectSeq(rq, LAMBDA p : ps[p].process_type = "cpu_bound"))
        io == Len(SelectSeq(rq, LAMBDA p : ps[p].process_type = "io_bound"))
        total == SumList(rq, [p \in DOMAIN ps |-> ps[p].remaining_time])
    IN IF rq = <<>> THEN "mixed"
       ELSE IF 10 * cpu >= 6 * Len(rq) THEN "cpu_intensive"
       ELSE IF 10 * io >= 6 * Len(rq) THEN "io_intensive"
       ELSE IF total < ShortJobLimit * Len(rq) THEN "short_jobs"
       ELSE IF total > LongJobLimit * Len(rq) THEN "long_jobs"
       ELSE "mixed"

\* AdaptiveScheduler._analyze_workload (ratio > 0.6 as 10 * count > 6 * len)
AnalyzeWorkload(rq, ps) ==
    LET cpu == Len(SelectSeq(rq, LAMBDA p : ps[p].process_type = "cpu_bound"))
        io == Len(SelectSeq(rq, LAMBDA p : ps[p].process_type = "io_bound"))
        total == SumList(rq, [p \in DOMAIN ps |-> ps[p].remaining_time])
    IN IF rq = <<>> THEN "mixed"
       ELSE IF 10 * cpu > 6 * Len(rq) THEN "cpu_intensive"
       ELSE IF 10 * io > 6 * Len(rq) THEN "io_intensive"
       ELSE IF total < ShortJobLimit * Len(rq) THEN "short_jobs"
       ELSE IF total > LongJobLimit * Len(rq) THEN "long_jobs"
       ELSE "mixed"

\* Variant of _select_best_algorithm whose low-load default is SJF.
SelectBestAlgorithmLowSJF(system_state, workload) ==
    IF system_state = "high_load"
    THEN IF workload = "long_jobs" THEN "round_robin" ELSE "load_balancing"
    ELSE IF system_state = "medium_load"
    THEN IF workload = "short_jobs" THEN "sjf"
         ELSE IF workload = "io_intensive" THEN "priority"
         ELSE "work_stealing"
    ELSE IF workload = "mixed" THEN "work_stealing" ELSE "sjf"

\* AdaptiveScheduler._select_best_algorithm
SelectBestAlgorithm(system_state, workload) ==
    IF system_state = "high_load"
    THEN IF workload = "cpu_intensive" THEN "load_balancing"
         ELSE IF workload = "long_jobs" THEN "round_robin"
         ELSE "load_balancing"
    ELSE IF system_state = "medium_load"
    THEN IF workload = "short_jobs" THEN "sjf"
         ELSE IF workload = "io_intensive" THEN "priority"
         ELSE "work_stealing"
    ELSE IF workload = "short_jobs" THEN "sjf"
         ELSE IF workload = "mixed" THEN "work_stealing"
         ELSE "fcfs"

\* AdaptiveScheduler._adapt_scheduler
AdaptScheduler(st, rq, n, ps) ==
    LET system_state == AnalyzeSystemState(rq, n)
        workload_char == AnalyzeWorkload(rq, ps)
        name == SelectBestAlgorithm(system_state, workload_char)
    IN [st EXCEPT !.system_state_history = Append(@, system_state),
                  !.workload_history = Append(@, workload_char),
                  !.current_scheduler_name = name,
                  !.algorithm_usage[name] = @ + 1]

\* select_process of a concrete scheduler d
ConcreteSelect(d, st, core_id, load, shuffled, rq, now, ps) ==
    CASE d.kind = "fcfs" -> FCFSSelect(st, rq, ps)
      [] d.kind = "sjf" -> SJFSelect(st, rq, ps)
      [] d.kind = "round_robin" -> RRSelect(st, rq)
      [] d.kind = "priority" -> PrioritySelect(d, st, rq, now, ps)
      [] d.kind = "load_balancing" -> LBSelect(st, core_id, load, rq, ps)
      [] d.kind = "work_stealing" -> WSSelect(st, core_id, shuffled, rq)

\* Variant of AdaptiveScheduler.select_process that adapts on every call,
\* whatever the time since the last adaptation.
SelectProcessAlwaysAdapts(cfg, st, core_id, load, shuffled, rq, now, n, ps) ==
    IF cfg.kind = "adaptive"
    THEN LET st1 == [AdaptScheduler(st, rq, n, ps) EXCEPT !.last_adaptation_time = now]
         IN ConcreteSelect(AdaptiveSub(st1.current_scheduler_name), st1, core_id, load,
                           shuffled, rq, now, ps)
    ELSE ConcreteSelect(cfg, st, core_id, load, shuffled, rq, now, ps)

\* scheduler.select_process as the engine calls it (AdaptiveScheduler.select_process
\* when the scheduler is the adaptive one)
SelectProcess(cfg, st, core_id, load, shuffled, rq, now, n, ps) ==
    IF cfg.kind = "adaptive"
    THEN LET st1 == IF now - st.last_adaptation_time >= cfg.adaptation_interval
                    THEN [AdaptScheduler(st, rq, n, ps) EXCEPT !.last_adaptation_time = now]
                    ELSE st
         IN ConcreteSelect(AdaptiveSub(st1.current_scheduler_name), st1, core_id, load,
                           shuffled, rq, now, ps)
    ELSE ConcreteSelect(cfg, st, core_id, load, shuffled, rq, now, ps)

\* get_time_quantum of a concrete scheduler
GetTimeQuantum(d) ==
    CASE d.kind = "fcfs" -> Infinity
      [] d.kind = "sjf" -> IF d.preemptive THEN PreemptiveQuantum ELSE Infinity
      [] d.kind = "round_robin" -> d.time_quantum
      [] d.kind = "priority" -> IF d.preemptive THEN PreemptiveQuantum ELSE Infinity
      [] d.kind = "load_balancing" -> LoadBalancingQuantum
      [] d.kind = "work_stealing" -> WorkStealingQuantum

\* is_preemptive of a concrete scheduler
IsPreemptive(d) ==
    CASE d.kind = "fcfs" -> FALSE
      [] d.kind = "sjf" -> d.preemptive
      [] d.kind = "round_robin" -> TRUE
      [] d.kind = "priority" -> d.preemptive
      [] d.kind = "load_balancing" -> TRUE
      [] d.kind = "work_stealing" -> FALSE

\* should_preempt of a concrete scheduler: [preempt, sched]
ShouldPreempt(d, st, cur, rq, now, ps) ==
    CASE d.kind = "sjf" -> [preempt |-> SJFShouldPreempt(d, cur, rq, ps), sched |-> st]
      [] d.kind = "priority" -> PriorityShouldPreempt(d, st, cur, rq, now, ps)
      [] OTHER -> [preempt |-> FALSE, sched |-> st]

\* on_process_arrival of a concrete scheduler
OnProcessArrival(d, st, pid, now) ==
    IF d.kind = "priority" THEN PriorityOnArrival(st, pid, now) ELSE st

\* on_process_completion of a concrete scheduler
ConcreteOnCompletion(d, st, pid, ps) ==
    CASE d.kind = "round_robin" -> RROnCompletion(st, pid)
      [] d.kind = "priority" -> PriorityOnCompletion(st, pid)
      [] d.kind = "load_balancing" -> LBOnCompletion(st, pid, ps)
      [] d.kind = "work_stealing" -> WSOnCompletion(st, pid)
      [] OTHER -> st

\* Variant of the rolling log that drops the new entry when the log is full.
RecentAppendKeepsOldest(recent, t) ==
    IF Len(recent) >= RecentLimit THEN recent ELSE Append(recent, t)

\* recent_turnaround_times after one more completion
RecentAppend(recent, t) ==
    LET r == Append(recent, t)
    IN IF Len(r) > RecentLimit THEN Tail(r) ELSE r

\* scheduler.on_process_completion as the engine calls it
OnProcessCompletion(cfg, st, pid, ps) ==
    IF cfg.kind = "adaptive"
    THEN LET st1 == [st EXCEPT
                        !.recent_turnaround_times = RecentAppend(@, ps[pid].turnaround_time),
                        !.algorithm_performance[st.current_scheduler_name] =
                            Append(@, ps[pid].turnaround_time)]
         IN ConcreteOnCompletion(AdaptiveSub(st.current_scheduler_name), st1, pid, ps)
    ELSE ConcreteOnCompletion(cfg, st, pid, ps)

\* hasattr(self.scheduler, 'rotate_queue')
HasRotateQueue(cfg) == cfg.kind = "round_robin"

\* ------------------------------------------------------------------ engine
Event(kind, core_id, pid, now, actual, state) ==
    [kind |-> kind, core |-> core_id, pid |-> pid, time |-> now, actual |-> actual,
     state |-> state]

\* MulticoreSchedulerSimulator._reset_simulation, the loop over the processes
ResetProcess(p) ==
    [p EXCEPT !.state = "new", !.remaining_time = p.burst_time,
              !.start_time = NoneVal, !.completion_time = NoneVal,
              !.waiting_time = 0, !.turnaround_time = 0, !.response_time = 0]

\* Variant of the sort of all_processes that orders by descending arrival time.
SortByArrivalDescending(l, ps) ==
    StableSort(l, [p \in DOMAIN ps |-> <<0 - ps[p].arrival_time>>])

\* self.all_processes.sort(key=lambda p: p.arrival_time)
SortByArrival(l, ps) == StableSort(l, [p \in DOMAIN ps |-> <<ps[p].arrival_time>>])

\* Variant of the tests at the top of run_simulation without the test for an
\* empty process list.
ConfigurationErrorSchedulerOnly(cfg, l) == cfg.kind = "none"

\* The two tests at the top of run_simulation that raise ValueError.
ConfigurationError(cfg, l) == cfg.kind = "none" \/ l = <<>>

\* run_simulation up to the main loop: the two configuration errors, the
\* reset and the sort.
RunSimulation ==
    /\ pc \in {"idle", "done", "error"}
    /\ runs_left > 0
    /\ runs_left' = runs_left - 1
    /\ IF ConfigurationError(scheduler, all_processes)
       THEN /\ pc' = "error"
            /\ UNCHANGED <<procs, cores, sched, all_processes, ready_queue,
                           completed_processes, current_time, total_context_switches,
                           process_index, events>>
       ELSE /\ pc' = "loop"
            /\ current_time' = 0
            /\ ready_queue' = <<>>
            /\ completed_processes' = <<>>
            /\ total_context_switches' = 0
            /\ cores' = [c \in CoreIds |-> NewCore]
            /\ procs' = [p \in Pids |-> ResetProcess(procs[p])]
            /\ sched' = NewSched(Pids, CoreIds)
            /\ all_processes' = SortByArrival(all_processes, procs)
            /\ process_index' = 0
            /\ events' = <<>>
    /\ UNCHANGED <<num_cores, scheduler, max_time, time_quantum, min_time_slice, ci, metrics,
                   results>>

\* The two break tests at the top of the main loop.
LoopEnds ==
    \/ (max_time /= NoneVal /\ current_time >= max_time)
    \/ Len(completed_processes) >= Len(all_processes)

Terminate ==
    /\ pc = "loop"
    /\ LoopEnds
    /\ pc' = "finish"
    /\ UNCHANGED <<num_cores, scheduler, max_time, procs, cores, sched, all_processes,
                   ready_queue, completed_processes, current_time, total_context_switches,
                   process_index, time_quantum, min_time_slice, ci, metrics, runs_left,
                   events, results>>

\* Variant of the arrival loop that admits no process.
AdmitNothing(idx, rq, ps, st) == [index |-> idx, rq |-> rq, procs |-> ps, sched |-> st]

\* The arrival loop: [index, rq, procs, sched] after it.
RECURSIVE Admit(_, _, _, _)
Admit(idx, rq, ps, st) ==
    IF idx < Len(all_processes) /\ ps[all_processes[idx + 1]].arrival_time <= current_time
    THEN LET pid == all_processes[idx + 1]
         IN Admit(idx + 1, Append(rq, pid), [ps EXCEPT ![pid].state = "ready"],
                  OnProcessArrival(Active(scheduler, st), st, pid, current_time))
    ELSE [index |-> idx, rq |-> rq, procs |-> ps, sched |-> st]

AdmitArrivals ==
    /\ pc = "loop"
    /\ ~LoopEnds
    /\ LET a == Admit(process_index, ready_queue, procs, sched)
       IN /\ process_index' = a.index
          /\ ready_queue' = a.rq
          /\ procs' = a.procs
          /\ sched' = a.sched
    /\ pc' = "assign"
    /\ ci' = 0
    /\ UNCHANGED <<num_cores, scheduler, max_time, cores, all_processes,
                   completed_processes, current_time, total_context_switches,
                   time_quantum, min_time_slice, metrics, runs_left, events,
                   results>>

\* One iteration of the loop of _assign_processes_to_cores.
AssignCore ==
    /\ pc = "assign"
    /\ \E shuffled \in Shuffles(CoreIds \ {ci}) :
         IF IsIdle(cores[ci]) /\ ready_queue /= <<>>
         THEN \E r \in {SelectProcess(scheduler, sched, ci, cores[ci].current_load, shuffled,
                                       ready_queue, current_time, num_cores, procs)} :
                 /\ sched' = r.sched
                 /\ IF r.sel /= NoneVal
                    THEN /\ ready_queue' = RemoveFirst(r.rq, r.sel)
                         /\ cores' = [cores EXCEPT
                                         ![ci] = AssignProcess(@, r.sel, current_time, procs)]
                         /\ total_context_switches' = total_context_switches + 1
                         /\ events' = Append(events, Event("assign", ci, r.sel, current_time,
                                                           0, procs[r.sel].state))
                    ELSE /\ ready_queue' = r.rq
                         /\ UNCHANGED <<cores, total_context_switches, events>>
         ELSE UNCHANGED <<sched, ready_queue, cores, total_context_switches, events>>
    /\ IF ci + 1 < num_cores
       THEN ci' = ci + 1 /\ pc' = "assign"
       ELSE ci' = 0 /\ pc' = "execute"
    /\ UNCHANGED <<num_cores, scheduler, max_time, procs, all_processes,
                   completed_processes, current_time, process_index, time_quantum,
                   min_time_slice, metrics, runs_left, results>>

\* One iteration of the loop of _execute_all_cores (its two locals are set
\* when the loop is at the first core).
ExecuteCore ==
    /\ pc = "execute"
    /\ LET tq == IF ci = 0 THEN GetTimeQuantum(Active(scheduler, sched)) ELSE time_quantum
           mts == IF ci = 0 THEN Infinity ELSE min_time_slice
           core == cores[ci]
           cur == core.current_process
       IN /\ time_quantum' = tq
          /\ IF IsIdle(core)
             THEN /\ min_time_slice' = mts
                  /\ UNCHANGED <<procs, cores, sched, ready_queue, completed_processes, events>>
             ELSE \E sp \in {ShouldPreempt(Active(scheduler, sched), sched, cur, ready_queue,
                                            current_time, procs)} :
                     IF sp.preempt
                     THEN /\ cores' = [cores EXCEPT
                                          ![ci] = PreemptCurrentProcess(@, current_time)]
                          /\ ready_queue' = IF ~IsCompleted(procs[cur])
                                            THEN Append(ready_queue, cur) ELSE ready_queue
                          /\ sched' = sp.sched
                          /\ min_time_slice' = mts
                          /\ UNCHANGED <<procs, completed_processes, events>>
                     ELSE LET actual == ActualTime(procs[cur], tq)
                              p1 == ProcessExecute(procs[cur], tq, current_time, ci)
                              ps1 == [procs EXCEPT ![cur] = p1]
                              core1 == CoreAfterExecute(core, p1, actual, current_time)
                              requeue == ~IsCompleted(p1) /\ IsPreemptive(Active(scheduler, sp.sched))
                          IN /\ procs' = ps1
                             /\ min_time_slice' = Min2(mts, actual)
                             /\ events' = Append(events, Event("execute", ci, cur, current_time,
                                                               actual, procs[cur].state))
                             /\ completed_processes' =
                                   IF IsCompleted(p1) THEN Append(completed_processes, cur)
                                   ELSE completed_processes
                             /\ cores' = [cores EXCEPT ![ci] =
                                   IF requeue
                                   THEN PreemptCurrentProcess(core1, current_time + actual)
                                   ELSE core1]
                             /\ ready_queue' =
                                   IF requeue THEN Append(ready_queue, cur) ELSE ready_queue
                             /\ sched' =
                                   IF IsCompleted(p1)
                                   THEN OnProcessCompletion(scheduler, sp.sched, cur, ps1)
                                   ELSE IF requeue /\ HasRotateQueue(scheduler)
                                   THEN RotateQueue(sp.sched, cur, ps1)
                                   ELSE sp.sched
    /\ IF ci + 1 < num_cores
       THEN ci' = ci + 1 /\ pc' = "execute"
       ELSE ci' = 0 /\ pc' = "advance"
    /\ UNCHANGED <<num_cores, scheduler, max_time, all_processes, current_time,
                   total_context_switches, process_index, metrics, runs_left,
                   results>>

\* The end of a loop iteration: the clock moves, or the loop is left.
AdvanceTime ==
    /\ pc = "advance"
    /\ LET slice == IF min_time_slice /= Infinity THEN min_time_slice ELSE 0
       IN IF slice > 0
          THEN current_time' = current_time + slice /\ pc' = "loop"
          ELSE IF process_index < Len(all_processes)
          THEN /\ current_time' = procs[all_processes[process_index + 1]].arrival_time
               /\ pc' = "loop"
          ELSE current_time' = current_time /\ pc' = "finish"
    /\ UNCHANGED <<num_cores, scheduler, max_time, procs, cores, sched, all_processes,
                   ready_queue, completed_processes, total_context_switches,
                   process_index, time_quantum, min_time_slice, ci, metrics, runs_left,
                   events, results>>

\* CPUCore.get_utilization, times total_time / 100 where total_time is not 0.
GetUtilization(c, total_time) == IF total_time = 0 THEN 0 ELSE c.total_busy_time

\* load_balance_score of calculate_metrics, max(0.0, 1.0 - std_dev / 100.0),
\* kept as the square of 1 - score: [num, den] with score 1.0 iff num = 0 and
\* score 0.0 iff num = den.  With n cores of busy time b, B the sum of b and T
\* the total time, the square of stdev / 100 is
\* Sum (n * b - B)^2 / ((n - 1) * n^2 * T^2).
LoadBalanceScore(ps, cs, total_time) ==
    LET n == Cardinality(DOMAIN cs)
        u == [c \in DOMAIN cs |-> GetUtilization(cs[c], total_time)]
        B == SumOver(DOMAIN cs, u)
        D == SumOver(DOMAIN cs, [c \in DOMAIN cs |-> (n * u[c] - B) * (n * u[c] - B)])
        E == (n - 1) * n * n * total_time * total_time
    IN IF ~\E p \in DOMAIN ps : IsCompleted(ps[p]) THEN [num |-> 1, den |-> 1]
       ELSE IF n > 1 /\ total_time /= 0 THEN [num |-> Min2(D, E), den |-> E]
       ELSE [num |-> 0, den |-> 1]

\* MetricsCollector.calculate_metrics: the sums its averages and ratios divide.
CalculateMetrics(ps, cs, total_time, context_switches) ==
    LET completed == {p \in DOMAIN ps : IsCompleted(ps[p])}
    IN [num_processes |-> Cardinality(DOMAIN ps),
        num_completed |-> Cardinality(completed),
        num_cores |-> Cardinality(DOMAIN cs),
        total_simulation_time |-> total_time,
        sum_turnaround_time |-> SumOver(completed, [p \in DOMAIN ps |-> ps[p].turnaround_time]),
        sum_waiting_time |-> SumOver(completed, [p \in DOMAIN ps |-> ps[p].waiting_time]),
        sum_response_time |-> SumOver(completed, [p \in DOMAIN ps |-> ps[p].response_time]),
        total_busy_time |-> SumOver(DOMAIN cs, [c \in DOMAIN cs |-> cs[c].total_busy_time]),
        load_balance_score |-> LoadBalanceScore(ps, cs, total_time),
        total_context_switches |->
            SumOver(completed, [p \in DOMAIN ps |-> ps[p].context_switches]) + context_switches]

\* run_simulation after the main loop.
Finish ==
    /\ pc = "finish"
    /\ pc' = "done"
    /\ metrics' = CalculateMetrics(procs, cores, current_time, total_context_switches)
    /\ results' = Append(results, [scheduler |-> scheduler, metrics |-> metrics'])
    /\ UNCHANGED <<num_cores, scheduler, max_time, procs, cores, sched, all_processes,
                   ready_queue, completed_processes, current_time, total_context_switches,
                   process_index, time_quantum, min_time_slice, ci, runs_left, events>>

Next ==
    \/ RunSimulation
    \/ Terminate
    \/ AdmitArrivals
    \/ AssignCore
    \/ ExecuteCore
    \/ AdvanceTime
    \/ Finish

\* ------------------------------------------------------------ the workloads
ProcIds == 0 .. (NumProcs - 1)

\* Processes as generate_processes and add_process leave them: pid i is the
\* i-th process added, arrival times are cumulative gaps.
Workload(gaps, bursts, prios, ptype) ==
    [p \in ProcIds |-> NewProcess(SumOver(0..p, gaps), bursts[p], prios[p], ptype)]

FlatPriorities == [p \in ProcIds |-> 0]
DescendingPriorities == [p \in ProcIds |-> NumProcs - 1 - p]

PriorityChoices(kind) ==
    IF kind \in {"priority", "adaptive"} THEN {FlatPriorities, DescendingPriorities}
    ELSE {FlatPriorities}

TypeChoices(kind) ==
    IF kind = "adaptive" THEN {"cpu_bound", "io_bound", "mixed"} ELSE {"mixed"}

SchedulerChoices ==
    {SchedulerConfig("fcfs", FALSE, FALSE, NoneVal, NoneVal),
     SchedulerConfig("sjf", FALSE, FALSE, NoneVal, NoneVal),
     SchedulerConfig("sjf", TRUE, FALSE, NoneVal, NoneVal),
     SchedulerConfig("round_robin", FALSE, FALSE, SmallQuantum, NoneVal),
     SchedulerConfig("load_balancing", FALSE, FALSE, NoneVal, NoneVal),
     SchedulerConfig("work_stealing", FALSE, FALSE, NoneVal, NoneVal),
     SchedulerConfig("adaptive", FALSE, FALSE, NoneVal, ShortInterval)}
    \cup {SchedulerConfig("priority", pre, ag, NoneVal, NoneVal) : pre \in BOOLEAN, ag \in BOOLEAN}

\* self.metrics = None in __init__, as a record so that it compares with the
\* metrics of a finished run.
NoMetrics == [num_processes |-> NoneVal]

\* The state after the simulator, its scheduler and its processes are
\* constructed, before run_simulation is called.
Constructed(cfg, n, mt, workload, runs) ==
    /\ num_cores = n
    /\ scheduler = cfg
    /\ max_time = mt
    /\ procs = workload
    /\ cores = [c \in 0..(n - 1) |-> NewCore]
    /\ sched = NewSched(DOMAIN workload, 0..(n - 1))
    /\ all_processes = [i \in 1..Cardinality(DOMAIN workload) |-> i - 1]
    /\ ready_queue = <<>>
    /\ completed_processes = <<>>
    /\ current_time = 0
    /\ total_context_switches = 0
    /\ process_index = 0
    /\ time_quantum = 0
    /\ min_time_slice = 0
    /\ pc = "idle"
    /\ ci = 0
    /\ metrics = NoMetrics
    /\ runs_left = runs
    /\ events = <<>>
    /\ results = <<>>

Init ==
    \E cfg \in SchedulerChoices, n \in 1..MaxCores, mt \in {NoneVal, MaxTimeBound} :
      \E gaps \in [ProcIds -> 0..MaxGap], bursts \in [ProcIds -> 1..MaxBurst] :
        \E prios \in PriorityChoices(cfg.kind), ptype \in TypeChoices(cfg.kind) :
          Constructed(cfg, n, mt, Workload(gaps, bursts, prios, ptype), 1)

Spec == Init /\ [][Next]_vars


\* ------------------------------------------------- scenarios and re-runs
\* The Process objects made from a list of <<arrival_time, burst_time>>, pid
\* i for the i-th entry, default priority.
ProcessList(l, ptype) ==
    [p \in 0..(Len(l) - 1) |-> NewProcess(l[p + 1][1], l[p + 1][2], 0, ptype)]

StaggeredWorkload == ProcessList(<<<<0, 5>>, <<1, 3>>, <<2, 1>>>>, "mixed")
TwinWorkload == ProcessList(<<<<0, 3>>, <<0, 3>>>>, "mixed")
LongShortLongWorkload == ProcessList(<<<<0, 3>>, <<0, 1>>, <<0, 3>>>>, "mixed")
CpuBoundWorkload == ProcessList(<<<<2, 2>>, <<2, 1>>, <<3, 1>>, <<3, 1>>>>, "cpu_bound")
ShortLongWorkload == ProcessList(<<<<0, 3>>, <<0, 5>>>>, "mixed")
EmptyWorkload == ProcessList(<<>>, "mixed")

ScenarioWorkloads ==
    {StaggeredWorkload, TwinWorkload, LongShortLongWorkload, CpuBoundWorkload,
     ShortLongWorkload, EmptyWorkload}

\* self.scheduler = None, as __init__ leaves it
NoScheduler == SchedulerConfig("none", FALSE, FALSE, NoneVal, NoneVal)
RoundRobinTwo == SchedulerConfig("round_robin", FALSE, FALSE, 2, NoneVal)

ScenarioSchedulers == SchedulerChoices \cup {NoScheduler, RoundRobinTwo}

\* MulticoreSchedulerSimulator.set_scheduler between two calls of
\* run_simulation: a new scheduler object (or None) replaces the old one, and
\* the caller is back where it was before its first call.
SetScheduler ==
    /\ pc \in {"done", "error"}
    /\ runs_left > 0
    /\ \E cfg \in ScenarioSchedulers : scheduler' = cfg
    /\ sched' = NewSched(Pids, CoreIds)
    /\ pc' = "idle"
    /\ UNCHANGED <<num_cores, max_time, procs, cores, all_processes, ready_queue,
                   completed_processes, current_time, total_context_switches,
                   process_index, time_quantum, min_time_slice, ci, metrics,
                   runs_left, events, results>>

\* A workload that leaves two core queues of WorkStealingScheduler with two
\* processes each while a third core has none.
StealTieWorkload ==
    ProcessList(<<<<0, 21>>, <<0, 21>>, <<1, 11>>, <<2, 2>>, <<2, 1>>, <<2, 11>>, <<2, 1>>>>,
                "mixed")
\* Three jobs long enough for the AdaptiveScheduler to classify the queue as
\* LONG_JOBS under HIGH load on one core.
LongJobsWorkload == ProcessList(<<<<0, 60>>, <<0, 60>>, <<0, 60>>>>, "mixed")
\* A low-priority process that waits while a long one runs, and a process of
\* better priority that arrives late: (arrival, burst, priority).
AgingWorkload ==
    [p \in 0..2 |-> LET l == <<<<0, 15, 0>>, <<0, 1, 2>>, <<14, 1, 1>>>>
                    IN NewProcess(l[p + 1][1], l[p + 1][2], l[p + 1][3], "mixed")]
\* More unit jobs than recent_turnaround_times keeps, two arriving per time unit.
ManyJobsWorkload == [p \in 0..(RecentLimit + 1) |-> NewProcess(p \div 2, 1, 0, "mixed")]
WorkStealingConfig == SchedulerConfig("work_stealing", FALSE, FALSE, NoneVal, NoneVal)

InitScenarios ==
    \/ \E cfg \in ScenarioSchedulers, n \in 1..MaxCores, workload \in ScenarioWorkloads :
          Constructed(cfg, n, NoneVal, workload, MaxRuns)
    \/ Constructed(WorkStealingConfig, TieCores, NoneVal, StealTieWorkload, MaxRuns)
    \/ Constructed(SchedulerConfig("adaptive", FALSE, FALSE, NoneVal, ShortInterval), 1,
                   NoneVal, ManyJobsWorkload, MaxRuns)
    \/ \E pre \in BOOLEAN, ag \in BOOLEAN :
          Constructed(SchedulerConfig("priority", pre, ag, NoneVal, NoneVal), 1, NoneVal,
                      AgingWorkload, MaxRuns)
    \/ \E cfg \in {SchedulerConfig("adaptive", FALSE, FALSE, NoneVal, ShortInterval),
                     SchedulerConfig("load_balancing", FALSE, FALSE, NoneVal, NoneVal)} :
          Constructed(cfg, 1, NoneVal, LongJobsWorkload, MaxRuns)

NextScenarios ==
    \/ RunSimulation
    \/ Terminate
    \/ AdmitArrivals
    \/ AssignCore
    \/ ExecuteCore
    \/ AdvanceTime
    \/ Finish
    \/ SetScheduler

SpecScenarios == InitScenarios /\ [][NextScenarios]_vars

\* ------------------------------------------- policy objects called directly
\* The set S of pids as a list in ascending order.
RECURSIVE Ascending(_)
Ascending(S) ==
    IF S = {} THEN <<>>
    ELSE LET m == CHOOSE x \in S : \A y \in S : x <= y
         IN <<m>> \o Ascending(S \ {m})

\* Process objects of given types and burst times, all arriving at 0.
TypedProcessList(l) ==
    [p \in 0..(Len(l) - 1) |-> NewProcess(0, l[p + 1][2], 0, l[p + 1][1])]

\* Processes of every type with remaining times on both sides of the two
\* limits of _analyze_workload.
AnalysisPool ==
    TypedProcessList(<<<<"cpu_bound", 9>>, <<"cpu_bound", 10>>, <<"cpu_bound", 51>>,
                       <<"io_bound", 9>>, <<"io_bound", 11>>, <<"io_bound", 50>>,
                       <<"mixed", 9>>, <<"mixed", 49>>>>)

AdaptiveConfig == SchedulerConfig("adaptive", FALSE, FALSE, NoneVal, ShortInterval)

\* A scheduler object constructed for n cores and about to be handed the
\* ready queue rq of processes of the workload, outside run_simulation.
BeforeCall(cfg, n, workload, rq) ==
    /\ num_cores = n
    /\ scheduler = cfg
    /\ max_time = NoneVal
    /\ procs = workload
    /\ cores = [c \in 0..(n - 1) |-> NewCore]
    /\ sched = NewSched(DOMAIN workload, 0..(n - 1))
    /\ all_processes = [i \in 1..Cardinality(DOMAIN workload) |-> i - 1]
    /\ ready_queue = rq
    /\ completed_processes = <<>>
    /\ current_time = 0
    /\ total_context_switches = 0
    /\ process_index = 0
    /\ time_quantum = 0
    /\ min_time_slice = 0
    /\ pc = "call"
    /\ ci = 0
    /\ metrics = NoMetrics
    /\ runs_left = 0
    /\ events = <<>>
    /\ results = <<>>

InitAnalysis ==
    \E n \in 1..MaxCores, S \in SUBSET DOMAIN AnalysisPool :
        BeforeCall(AdaptiveConfig, n, AnalysisPool, Ascending(S))

\* AdaptiveScheduler._adapt_scheduler(ready_queue, current_time)
AdaptCall ==
    /\ pc = "call"
    /\ scheduler.kind = "adaptive"
    /\ sched' = AdaptScheduler(sched, ready_queue, num_cores, procs)
    /\ pc' = "returned"
    /\ UNCHANGED <<num_cores, scheduler, max_time, procs, cores, all_processes,
                   ready_queue, completed_processes, current_time,
                   total_context_switches, process_index, time_quantum,
                   min_time_slice, ci, metrics, runs_left, events, results>>

SpecAnalysis == InitAnalysis /\ [][AdaptCall]_vars

\* The lists of distinct pids of a workload, in every order.
ReadyQueues(workload) == UNION {Shuffles(S) : S \in SUBSET DOMAIN workload}

\* The schedulers that are called directly.
CallSchedulers ==
    {SchedulerConfig("round_robin", FALSE, FALSE, SmallQuantum, NoneVal),
     SchedulerConfig("load_balancing", FALSE, FALSE, NoneVal, NoneVal),
     SchedulerConfig("work_stealing", FALSE, FALSE, NoneVal, NoneVal)}

\* A scheduler about to be called with a ready queue.
InitCalls ==
    \E cfg \in CallSchedulers, n \in 1..MaxCores, bursts \in [ProcIds -> {1, MaxBurst}] :
      \E rq \in ReadyQueues(Workload([p \in ProcIds |-> 0], bursts, FlatPriorities, "mixed")) :
        BeforeCall(cfg, n, Workload([p \in ProcIds |-> 0], bursts, FlatPriorities, "mixed"), rq)

\* What a direct call leaves alone.
CallFrame ==
    UNCHANGED <<num_cores, scheduler, max_time, procs, cores, all_processes,
                completed_processes, current_time, total_context_switches,
                process_index, time_quantum, min_time_slice, pc, ci, metrics,
                runs_left, results>>

\* scheduler.select_process(core, ready_queue, current_time), the caller
\* keeping its ready queue as it is.
SelectCall ==
    /\ pc = "call" /\ Len(events) < MaxCalls
    /\ \E c \in CoreIds :
         \E shuffled \in Shuffles(CoreIds \ {c}) :
         \E r \in {SelectProcess(scheduler, sched, c, cores[c].current_load, shuffled,
                                  ready_queue, current_time, num_cores, procs)} :
            /\ sched' = r.sched
            /\ ready_queue' = r.rq
            /\ events' = Append(events, Event("select", c, r.sel, current_time, 0, "ready"))
    /\ CallFrame

\* A process that is not in the ready queue joins it.
ArrivalCall ==
    /\ pc = "call" /\ Len(events) < MaxCalls
    /\ \E p \in Pids :
          /\ ~InList(p, ready_queue)
          /\ ready_queue' = Append(ready_queue, p)
          /\ events' = Append(events, Event("arrival", 0, p, current_time, 0, "ready"))
    /\ UNCHANGED sched
    /\ CallFrame

\* RoundRobinScheduler.rotate_queue(process) for a process of rr_queue
RotateCall ==
    /\ pc = "call" /\ Len(events) < MaxCalls
    /\ scheduler.kind = "round_robin"
    /\ \E p \in Pids :
          /\ InList(p, sched.rr_queue)
          /\ sched' = RotateQueue(sched, p, procs)
          /\ events' = Append(events, Event("rotate", 0, p, current_time, 0, "ready"))
    /\ UNCHANGED ready_queue
    /\ CallFrame

NextCalls ==
    \/ SelectCall
    \/ ArrivalCall
    \/ RotateCall

SpecCalls == InitCalls /\ [][NextCalls]_vars

\* ------------------------------------------------------------------ claims
Terminated(p) == procs[p].state = "terminated"
ExecuteEvents(p) == {i \in 1..Len(events) : events[i].kind = "execute" /\ events[i].pid = p}
AssignEvents(p) == {i \in 1..Len(events) : events[i].kind = "assign" /\ events[i].pid = p}
Occurrences(x, s) == Cardinality({i \in 1..Len(s) : s[i] = x})

\* C1: when an unbounded run (max_time = None) returns, every process added
\* to the simulator is TERMINATED and completed_processes is as long as
\* all_processes.
C1_UnboundedRunCompletesAll ==
    (pc = "done" /\ max_time = NoneVal) =>
        /\ \A p \in Pids : Terminated(p)
        /\ Len(completed_processes) = Len(all_processes)

\* C2: in every state completed_processes holds each process at most once and
\* only TERMINATED processes, so it is never longer than all_processes.
C2_CompletedListSound ==
    /\ \A p \in Pids : Occurrences(p, completed_processes) <= 1
    /\ \A i \in 1..Len(completed_processes) : Terminated(completed_processes[i])
    /\ Len(completed_processes) <= Len(all_processes)

\* C3: no process is the current process of two cores at the same time.
C3_NoDoubleAssignment ==
    \A c, d \in CoreIds :
        (c /= d /\ cores[c].current_process /= NoneVal)
            => cores[c].current_process /= cores[d].current_process

\* C4: the engine never assigns to a core, and never calls execute on, a
\* process whose state is already TERMINATED.
C4_NoTerminatedDispatch ==
    \A i \in 1..Len(events) : events[i].state /= "terminated"

\* C5: every completed process has waiting_time >= 0 (its completion_time is
\* at least arrival_time + burst_time) and response_time >= 0.
C5_NonNegativeWaiting ==
    \A p \in Pids : Terminated(p) =>
        /\ procs[p].waiting_time >= 0
        /\ procs[p].completion_time >= procs[p].arrival_time + procs[p].burst_time
        /\ procs[p].response_time >= 0

\* C6: for every completed process turnaround_time = completion_time -
\* arrival_time, waiting_time = turnaround_time - burst_time and response_time
\* = start_time - arrival_time; start_time is set at the first execution
\* slice of a process and no later slice overwrites it.
C6_TimingIdentities ==
    \A p \in Pids :
        /\ (procs[p].start_time = NoneVal) = (ExecuteEvents(p) = {})
        /\ ExecuteEvents(p) /= {} =>
              /\ procs[p].start_time =
                    events[CHOOSE i \in ExecuteEvents(p) : \A j \in ExecuteEvents(p) : i <= j].time
              /\ procs[p].response_time = procs[p].start_time - procs[p].arrival_time
        /\ Terminated(p) =>
              /\ procs[p].turnaround_time = procs[p].completion_time - procs[p].arrival_time
              /\ procs[p].waiting_time = procs[p].turnaround_time - procs[p].burst_time

\* C6 witness: a completed process that ran in slices starting at different times.
C6_Witness ==
    \E p \in Pids :
        /\ Terminated(p)
        /\ \E i, j \in ExecuteEvents(p) : events[i].time < events[j].time

\* C7: the execution slices [time, time + actual) a core performs never
\* overlap.
C7_SlicesDisjoint ==
    \A i, j \in 1..Len(events) :
        (/\ i < j
         /\ events[i].kind = "execute" /\ events[j].kind = "execute"
         /\ events[i].core = events[j].core
         /\ events[i].actual > 0 /\ events[j].actual > 0)
            => \/ events[i].time + events[i].actual <= events[j].time
               \/ events[j].time + events[j].actual <= events[i].time

\* C8: remaining_time never increases and is never negative; an execute call
\* reduces it by exactly min(time_slice, remaining_time), the amount it returns.
C8_RemainingTimeMonotone ==
    [][/\ \A p \in Pids : /\ procs'[p].remaining_time <= procs[p].remaining_time
                          /\ procs'[p].remaining_time >= 0
       /\ (Len(events') > Len(events) /\ events'[Len(events')].kind = "execute") =>
             LET e == events'[Len(events')]
             IN /\ e.actual = Min2(time_quantum', procs[e.pid].remaining_time)
                /\ procs'[e.pid].remaining_time = procs[e.pid].remaining_time - e.actual
                /\ \A q \in Pids \ {e.pid} : procs'[q].remaining_time = procs[q].remaining_time
      ]_vars

\* C8 witness: a process that has executed part of its burst.
C8_Witness ==
    \E p \in Pids : 0 < procs[p].remaining_time /\ procs[p].remaining_time < procs[p].burst_time

StateRank(s) == CASE s = "new" -> 0 [] s = "ready" -> 1 [] s = "running" -> 1
                  [] s = "terminated" -> 2

\* C9: process state only moves NEW -> READY -> RUNNING -> TERMINATED (READY
\* and RUNNING may alternate); no step changes the state of a TERMINATED
\* process or appends a TERMINATED process to the ready queue.
C9_StateTransitions ==
    [][\A p \in Pids :
         /\ StateRank(procs'[p].state) >= StateRank(procs[p].state)
         /\ procs[p].state = "new" => procs'[p].state \in {"new", "ready"}
         /\ procs[p].state = "terminated" => procs'[p].state = "terminated"
         /\ Occurrences(p, ready_queue') > Occurrences(p, ready_queue)
               => procs'[p].state /= "terminated"
      ]_vars

\* C9 witness: a process that went back to READY after a slice, ran again
\* and terminated, in a run that has finished.
C9_Witness ==
    /\ pc = "done"
    /\ \E p \in Pids : Terminated(p) /\ Cardinality(ExecuteEvents(p)) >= 2

DistinctArrivals ==
    \A a, b \in Pids : a /= b => procs[a].arrival_time /= procs[b].arrival_time

\* C10: under FCFS with pairwise distinct arrival times, a process that
\* arrives earlier is dispatched earlier and starts no later, for any core
\* count.
C10_FCFSArrivalOrder ==
    (scheduler.kind = "fcfs" /\ DistinctArrivals) =>
        \A a, b \in Pids :
            (procs[a].arrival_time < procs[b].arrival_time /\ AssignEvents(b) /= {}) =>
                /\ \E i \in AssignEvents(a) : \A j \in AssignEvents(b) : i < j
                /\ procs[b].start_time /= NoneVal =>
                      /\ procs[a].start_time /= NoneVal
                      /\ procs[a].start_time <= procs[b].start_time

\* C10 witness: an FCFS run on two cores, distinct arrival times, finished
\* with every process started.
C10_Witness ==
    /\ scheduler.kind = "fcfs" /\ DistinctArrivals /\ num_cores = 2 /\ pc = "done"
    /\ \A p \in Pids : procs[p].start_time /= NoneVal

\* The run was made on the processes of workload w.
RunsWorkload(w) ==
    /\ DOMAIN procs = DOMAIN w
    /\ \A p \in DOMAIN w : /\ procs[p].arrival_time = w[p].arrival_time
                           /\ procs[p].burst_time = w[p].burst_time

\* A finished run of scheduler kind k (preemptive or not) on one core.
SingleCoreRunDone(k, preemptive, w) ==
    /\ pc = "done" /\ num_cores = 1 /\ RunsWorkload(w)
    /\ scheduler.kind = k /\ scheduler.preemptive = preemptive

CompletionTimes == [p \in Pids |-> procs[p].completion_time]
WaitingTimes == [p \in Pids |-> procs[p].waiting_time]

\* The execute calls of the run, in order: <<pid, from, to>>.
Slices ==
    LET ex == SelectSeq(events, LAMBDA e : e.kind = "execute")
    IN [i \in 1..Len(ex) |-> <<ex[i].pid, ex[i].time, ex[i].time + ex[i].actual>>]

\* C11 as stated: FCFS on 1 core with P0(0,5), P1(1,3), P2(2,1) completes
\* P0, P1, P2 in that order at 5, 8, 9 with waiting times 0, 4, 7.
C11_FCFSScenarioAsStated ==
    SingleCoreRunDone("fcfs", FALSE, StaggeredWorkload) =>
        /\ completed_processes = <<0, 1, 2>>
        /\ [i \in 1..3 |-> CompletionTimes[i - 1]] = <<5, 8, 9>>
        /\ [i \in 1..3 |-> WaitingTimes[i - 1]] = <<0, 4, 7>>

\* C11 amended: FCFS on 1 core with P0(0,5), P1(1,3), P2(2,1) completes
\* P0, P1, P2 in that order at 5, 8, 9 with waiting times 0, 4, 6 (P2 waits
\* 9 - 2 - 1 = 6).
C11_FCFSScenario ==
    SingleCoreRunDone("fcfs", FALSE, StaggeredWorkload) =>
        /\ completed_processes = <<0, 1, 2>>
        /\ [i \in 1..3 |-> CompletionTimes[i - 1]] = <<5, 8, 9>>
        /\ [i \in 1..3 |-> WaitingTimes[i - 1]] = <<0, 4, 6>>

\* C11 witness: the FCFS scenario has run to its end.
C11_Witness ==
    SingleCoreRunDone("fcfs", FALSE, StaggeredWorkload) /\ Len(completed_processes) = 3

\* C12: non-preemptive SJF on 1 core with P0(0,5), P1(1,3), P2(2,1) runs P0
\* to completion at 5, then P2 before P1: completion order P0, P2, P1 at
\* 5, 6, 9.
C12_SJFScenario ==
    SingleCoreRunDone("sjf", FALSE, StaggeredWorkload) =>
        /\ completed_processes = <<0, 2, 1>>
        /\ Slices = <<<<0, 0, 5>>, <<2, 5, 6>>, <<1, 6, 9>>>>
        /\ [i \in 1..3 |-> CompletionTimes[completed_processes[i]]] = <<5, 6, 9>>

\* C12 witness: the SJF scenario has run to its end.
C12_Witness ==
    SingleCoreRunDone("sjf", FALSE, StaggeredWorkload) /\ Len(completed_processes) = 3

\* A finished Round Robin run with quantum 2 on one core with P0(0,3), P1(0,3).
RRScenarioDone ==
    SingleCoreRunDone("round_robin", FALSE, TwinWorkload) /\ scheduler.time_quantum = 2

\* C13 as stated: Round Robin with quantum 2 on 1 core with P0(0,3), P1(0,3)
\* runs P0 0-2, P1 2-4, P0 4-5, P1 5-6; both complete by 6 with waiting
\* times 3 and 3.
C13_RRScenarioAsStated ==
    RRScenarioDone =>
        /\ Slices = <<<<0, 0, 2>>, <<1, 2, 4>>, <<0, 4, 5>>, <<1, 5, 6>>>>
        /\ \A p \in Pids : Terminated(p) /\ procs[p].completion_time <= 6
        /\ [i \in 1..2 |-> WaitingTimes[i - 1]] = <<3, 3>>

\* C13 amended: the same slices, both complete by 6 (P0 at 5, P1 at 6), with
\* waiting times 2 and 3.
C13_RRScenario ==
    RRScenarioDone =>
        /\ Slices = <<<<0, 0, 2>>, <<1, 2, 4>>, <<0, 4, 5>>, <<1, 5, 6>>>>
        /\ \A p \in Pids : Terminated(p) /\ procs[p].completion_time <= 6
        /\ [i \in 1..2 |-> CompletionTimes[i - 1]] = <<5, 6>>
        /\ [i \in 1..2 |-> WaitingTimes[i - 1]] = <<2, 3>>

\* C13 witness: the Round Robin scenario has run to its end.
C13_Witness ==
    RRScenarioDone /\ Len(completed_processes) = 2

\* Every process arrives at the same time: once admitted, the ready set gets
\* no new arrival.
FixedReadySet == \A a, b \in Pids : procs[a].arrival_time = procs[b].arrival_time

\* i and j are two consecutive execution slices of one process.
ConsecutiveSlices(i, j) ==
    /\ i < j
    /\ events[i].kind = "execute" /\ events[j].kind = "execute"
    /\ events[i].pid = events[j].pid
    /\ \A k \in (i + 1)..(j - 1) :
          ~(events[k].kind = "execute" /\ events[k].pid = events[i].pid)

\* The execution slices of process q between events i and j.
SlicesBetween(q, i, j) ==
    {k \in (i + 1)..(j - 1) : events[k].kind = "execute" /\ events[k].pid = q}

\* C14: under Round Robin with quantum Q and a fixed ready set of n
\* processes, between two consecutive slices of one process every other
\* process receives at most one slice, and the process waits at most
\* (n - 1) * Q time units.
C14_RRBoundedWait ==
    (scheduler.kind = "round_robin" /\ FixedReadySet) =>
        \A i, j \in 1..Len(events) :
            ConsecutiveSlices(i, j) =>
                /\ \A q \in Pids \ {events[i].pid} :
                      Cardinality(SlicesBetween(q, i, j)) <= 1
                /\ events[j].time - (events[i].time + events[i].actual)
                      <= (Cardinality(Pids) - 1) * scheduler.time_quantum

FCFSConfig == SchedulerConfig("fcfs", FALSE, FALSE, NoneVal, NoneVal)
SJFConfig == SchedulerConfig("sjf", FALSE, FALSE, NoneVal, NoneVal)
SRTFConfig == SchedulerConfig("sjf", TRUE, FALSE, NoneVal, NoneVal)

\* average_waiting_time of run a <= average_waiting_time of run b, both with
\* completed processes (sum_a / n_a <= sum_b / n_b, cross-multiplied).
MeanWaitingAtMost(a, b) ==
    a.metrics.sum_waiting_time * b.metrics.num_completed
        <= b.metrics.sum_waiting_time * a.metrics.num_completed

\* C15: on one workload and one core count (two runs of one simulator), the
\* mean waiting time of the completed processes under preemptive SJF (SRTF)
\* is at most the mean waiting time under FCFS and under non-preemptive SJF.
C15_SRTFMinimizesWaiting ==
    \A i, j \in 1..Len(results) :
        (/\ results[i].scheduler = SRTFConfig
         /\ results[j].scheduler \in {FCFSConfig, SJFConfig}
         /\ results[i].metrics.num_completed > 0
         /\ results[j].metrics.num_completed > 0)
            => MeanWaitingAtMost(results[i], results[j])

SystemStates == {"low_load", "medium_load", "high_load"}
WorkloadCharacteristics ==
    {"cpu_intensive", "io_intensive", "mixed", "short_jobs", "long_jobs"}

\* The number of adaptations the AdaptiveScheduler has made in state st.
Adaptations(st) == SumOver(PolicyNames, st.algorithm_usage)

\* C16: the Adaptive policy's choice is the table's entry for (system state,
\* workload characteristic), for every pair, and at every adaptation of a
\* run the policy it switches to is the table's entry for the ready queue
\* it analysed, whatever the current policy, the clock and the history are.
C16_AdaptiveDecisionTable ==
    [][LET DecisionTable(system_state, workload) ==
               CASE system_state = "high_load" ->
                       IF workload = "long_jobs" THEN "round_robin"
                       ELSE "load_balancing"
                 [] system_state = "medium_load" ->
                       CASE workload = "short_jobs" -> "sjf"
                         [] workload = "io_intensive" -> "priority"
                         [] OTHER -> "work_stealing"
                 [] system_state = "low_load" ->
                       CASE workload = "short_jobs" -> "sjf"
                         [] workload = "mixed" -> "work_stealing"
                         [] OTHER -> "fcfs"
       IN  /\ \A s \in SystemStates, w \in WorkloadCharacteristics :
                 SelectBestAlgorithm(s, w) = DecisionTable(s, w)
           /\ (scheduler.kind = "adaptive"
                  /\ Adaptations(sched') > Adaptations(sched)) =>
                 sched'.current_scheduler_name =
                     DecisionTable(AnalyzeSystemState(ready_queue, num_cores),
                                   AnalyzeWorkload(ready_queue, procs))
      ]_vars

\* C16 witness: an adaptive run that has adapted to two different policies.
C16_Witness ==
    /\ scheduler.kind = "adaptive"
    /\ Cardinality({n \in PolicyNames : sched.algorithm_usage[n] > 0}) >= 2

\* C17: under the Adaptive policy every process select_process returns is in
\* the engine's ready queue and not terminated, and a run without a time
\* bound ends with every process completed.
C17_AdaptiveKeepsInFlightWork ==
    [][scheduler.kind = "adaptive" =>
         /\ (Len(events') = Len(events) + 1 /\ events'[Len(events')].kind = "assign") =>
               LET pid == events'[Len(events')].pid
               IN  InList(pid, ready_queue) /\ procs[pid].state /= "terminated"
         /\ (pc' = "done" /\ max_time = NoneVal) =>
               \A p \in DOMAIN procs' : procs'[p].state = "terminated"
      ]_vars

\* C18: a call of run_simulation with no scheduler set or with an empty
\* process list ends in the configuration error and leaves the clock, the
\* ready queue, the completed list, the cores, the processes and the metrics
\* as they were.
C18_ConfigErrorTouchesNothing ==
    [][(/\ pc \in {"idle", "done", "error"}
        /\ runs_left' = runs_left - 1
        /\ (scheduler.kind = "none" \/ all_processes = <<>>)) =>
           /\ pc' = "error"
           /\ UNCHANGED <<current_time, ready_queue, completed_processes, cores, procs,
                          metrics, all_processes, sched, total_context_switches,
                          process_index, results>>
      ]_vars

\* C18 witness: the configuration error was raised on a simulator that holds
\* the state of an earlier finished run.
C18_Witness ==
    /\ pc = "error"
    /\ scheduler.kind = "none"
    /\ results /= <<>>
    /\ completed_processes /= <<>>
    /\ current_time > 0

\* One call of run_simulation for each policy and core count, with and
\* without a time bound, on the workloads of the scenarios and on the
\* workloads of NumProcs short or long processes.
InitTermination ==
    \E cfg \in SchedulerChoices, n \in 1..MaxCores, mt \in {NoneVal, MaxTimeBound} :
        \/ \E workload \in ScenarioWorkloads \ {EmptyWorkload} :
              Constructed(cfg, n, mt, workload, 1)
        \/ \E gaps \in [ProcIds -> 0..MaxGap], bursts \in [ProcIds -> {1, MaxBurst}] :
              Constructed(cfg, n, mt,
                          Workload(gaps, bursts, DescendingPriorities, "mixed"), 1)

\* run_simulation runs in the caller's thread, so a step that can be taken is
\* taken; every step of Next changes pc or ci.
FairSpec == InitTermination /\ [][Next]_vars /\ WF_<<pc, ci>>(Next)

\* C19: every call of run_simulation, for each policy, workload and core
\* count, with or without a time bound, comes to its end and returns the
\* metrics of the run.
C19_RunTerminates == <>(pc = "done" /\ Len(results) = 1)

\* C19 witness: a run that ended on the time bound with processes left over
\* and returned its metrics.
C19_Witness ==
    /\ pc = "done"
    /\ max_time /= NoneVal
    /\ current_time >= max_time
    /\ Len(completed_processes) < Len(all_processes)
    /\ Len(results) = 1
    /\ results[1].metrics.num_completed < results[1].metrics.num_processes

\* C20: whenever the engine calls select_process, for whichever policy, the
\* ready queue after the call holds every process as many times as before
\* the call (the order may differ), the selected process included.
C20_SelectKeepsReadyQueue ==
    (pc = "assign" /\ IsIdle(cores[ci]) /\ ready_queue /= <<>>) =>
        \A shuffled \in Shuffles(CoreIds \ {ci}) :
            LET r == SelectProcess(scheduler, sched, ci, cores[ci].current_load, shuffled,
                                   ready_queue, current_time, num_cores, procs)
            IN  /\ Len(r.rq) = Len(ready_queue)
                /\ \A p \in Pids : Occurrences(p, r.rq) = Occurrences(p, ready_queue)

\* C20 witness: a call of select_process that selects a process and leaves
\* the ready queue, of two or more processes, in another order.
C20_Witness ==
    /\ pc = "assign" /\ IsIdle(cores[ci]) /\ Len(ready_queue) >= 2
    /\ \E shuffled \in Shuffles(CoreIds \ {ci}) :
            LET r == SelectProcess(scheduler, sched, ci, cores[ci].current_load, shuffled,
                                   ready_queue, current_time, num_cores, procs)
            IN  r.sel /= NoneVal /\ r.rq /= ready_queue

\* C21: a run is deterministic: at every call of select_process the selected
\* process, the ready queue and the policy's state after the call are the
\* same for every order random.shuffle can leave the victims in.
C21_Deterministic ==
    (pc = "assign" /\ IsIdle(cores[ci]) /\ ready_queue /= <<>>) =>
        \A s1, s2 \in Shuffles(CoreIds \ {ci}) :
            SelectProcess(scheduler, sched, ci, cores[ci].current_load, s1,
                          ready_queue, current_time, num_cores, procs)
            = SelectProcess(scheduler, sched, ci, cores[ci].current_load, s2,
                            ready_queue, current_time, num_cores, procs)

\* C22: the load-balance score a run returns lies in [0.0, 1.0], and it is
\* 1.0 whenever the utilizations of all cores are equal, as they are on
\* every single-core run.
C22_LoadBalanceScore ==
    pc = "done" =>
        LET m == results[Len(results)].metrics
            score == m.load_balance_score
        IN  /\ 0 <= score.num /\ score.num <= score.den /\ score.den > 0
            /\ (\A c, d \in CoreIds :
                    GetUtilization(cores[c], m.total_simulation_time)
                    = GetUtilization(cores[d], m.total_simulation_time))
               => score.num = 0

\* The execute events of the loop iteration in progress.
StepSlices == {i \in 1..Len(events) : events[i].kind = "execute" /\ events[i].time = current_time}

\* The processes that have not arrived yet.
Unarrived == {p \in Pids : procs[p].state = "new"}

\* C23: within a run the clock never decreases; at the end of a loop
\* iteration it advances by the least actual execution time of the cores that
\* executed in the iteration, and when no core executed and a process has
\* not arrived yet it jumps to the earliest such arrival and the loop goes
\* on; a run without a time bound does not end while a process is unarrived.
C23_ClockAdvance ==
    [][/\ pc \notin {"idle", "done", "error"} => current_time' >= current_time
       /\ pc = "advance" =>
            IF StepSlices /= {}
            THEN \E i \in StepSlices :
                    /\ current_time' = current_time + events[i].actual
                    /\ \A j \in StepSlices : events[i].actual <= events[j].actual
            ELSE Unarrived /= {} =>
                    /\ pc' = "loop"
                    /\ \E p \in Unarrived :
                          /\ current_time' = procs[p].arrival_time
                          /\ \A q \in Unarrived :
                                procs[p].arrival_time <= procs[q].arrival_time
       /\ (pc' = "finish" /\ max_time = NoneVal) => Unarrived = {}
      ]_vars

\* The cores process p is attached to.
CoresOf(p) == {c \in CoreIds : cores[c].current_process = p}

\* C24: at the start of every loop iteration each admitted process is in
\* exactly one place: once in the ready queue, or attached to one core, or
\* once in the completed list; and the ready queue holds no terminated
\* process and no process that arrives after the clock.
C24_OnePlacePerProcess ==
    pc = "loop" =>
        /\ \A p \in Pids \ Unarrived :
              Occurrences(p, ready_queue) + Cardinality(CoresOf(p))
                  + Occurrences(p, completed_processes) = 1
        /\ \A i \in 1..Len(ready_queue) :
              /\ procs[ready_queue[i]].state /= "terminated"
              /\ procs[ready_queue[i]].arrival_time <= current_time

\* C25: when a run without a time bound returns, the total simulated time
\* its metrics are computed from is at least the completion time of every
\* completed process.
C25_TotalTimeCoversCompletions ==
    (pc = "done" /\ max_time = NoneVal) =>
        \A p \in Pids :
            IsCompleted(procs[p]) =>
                procs[p].completion_time
                    <= results[Len(results)].metrics.total_simulation_time

\* C26: when a run returns, the busy time of every core is at most the total
\* simulated time, so that get_utilization is at most 100 for every core and
\* the CPU utilization of the metrics is at most 100%.
C26_BusyTimeWithinTotalTime ==
    pc = "done" =>
        LET m == results[Len(results)].metrics
        IN  /\ \A c \in CoreIds :
                  /\ 0 <= cores[c].total_busy_time
                  /\ cores[c].total_busy_time <= m.total_simulation_time
                  /\ GetUtilization(cores[c], m.total_simulation_time)
                        <= m.total_simulation_time
            /\ m.total_busy_time <= m.total_simulation_time * m.num_cores

\* C27: at the start of every loop iteration and when the run returns, the
\* busy time and the idle time of every core add up to the simulated time
\* elapsed since the reset at the start of the run, which is the clock.
C27_BusyPlusIdleIsElapsed ==
    pc \in {"loop", "done"} =>
        \A c \in CoreIds :
            cores[c].total_busy_time + cores[c].total_idle_time = current_time

\* C28: two calls of run_simulation in succession on one simulator, with the
\* same processes and the same policy configuration, return the same
\* metrics, total context switches included.
C28_RerunSameMetrics ==
    (Len(results) = 2 /\ results[1].scheduler = results[2].scheduler) =>
        results[1].metrics = results[2].metrics

\* The standalone policies whose is_preemptive is true.
StandalonePreemptive ==
    scheduler.kind \in {"round_robin", "load_balancing", "sjf", "priority"}
        /\ IsPreemptive(scheduler)

\* C29: under a standalone preemptive policy every core is idle at the start
\* of every loop iteration, and every admitted process that has not
\* completed is back in the ready queue.
C29_CoresIdleAtStepStart ==
    (pc = "loop" /\ StandalonePreemptive) =>
        /\ \A c \in CoreIds : IsIdle(cores[c]) /\ cores[c].current_process = NoneVal
        /\ \A p \in Pids \ Unarrived :
              ~IsCompleted(procs[p]) => InList(p, ready_queue)

\* C29 witness: a loop iteration of a preemptive policy starts with a process
\* in the ready queue that has executed a slice without completing.
C29_Witness ==
    /\ pc = "loop" /\ StandalonePreemptive /\ current_time > 0
    /\ \E i \in 1..Len(ready_queue) :
          LET p == procs[ready_queue[i]]
          IN  0 < p.remaining_time /\ p.remaining_time < p.burst_time

\* The adaptation bookkeeping of the AdaptiveScheduler in state st.
AdaptationState(st) ==
    <<st.current_scheduler_name, st.last_adaptation_time, st.algorithm_usage>>

\* C30: within a run the Adaptive policy changes its current policy (and
\* counts an adaptation) only in a select_process call made when now -
\* last_adaptation_time >= adaptation_interval, which sets
\* last_adaptation_time to now, so successive adaptations are at least
\* adaptation_interval apart; while the clock is below adaptation_interval
\* the current policy is the initial load_balancing; and every
\* select_process call returns what the policy current after the call
\* selects.  (The reset at the start of run_simulation restores the initial
\* policy and is not an adaptation.)
C30_AdaptsOnlyAtInterval ==
    [][(scheduler.kind = "adaptive" /\ pc \notin {"idle", "done", "error"}) =>
         /\ AdaptationState(sched') /= AdaptationState(sched) =>
               /\ pc = "assign" /\ IsIdle(cores[ci]) /\ ready_queue /= <<>>
               /\ current_time - sched.last_adaptation_time >= scheduler.adaptation_interval
               /\ sched'.last_adaptation_time = current_time
               /\ sched'.last_adaptation_time - sched.last_adaptation_time
                     >= scheduler.adaptation_interval
               /\ Adaptations(sched') = Adaptations(sched) + 1
         /\ (pc = "assign" /\ IsIdle(cores[ci]) /\ ready_queue /= <<>>
                 /\ current_time - sched.last_adaptation_time >= scheduler.adaptation_interval) =>
               Adaptations(sched') = Adaptations(sched) + 1
         /\ current_time' < scheduler.adaptation_interval =>
               /\ sched'.current_scheduler_name = "load_balancing"
               /\ Adaptations(sched') = 0
         /\ (pc = "assign" /\ IsIdle(cores[ci]) /\ ready_queue /= <<>>) =>
               \E shuffled \in Shuffles(CoreIds \ {ci}) :
                  LET st1 == [sched EXCEPT
                                 !.current_scheduler_name = sched'.current_scheduler_name,
                                 !.last_adaptation_time = sched'.last_adaptation_time,
                                 !.algorithm_usage = sched'.algorithm_usage,
                                 !.system_state_history = sched'.system_state_history,
                                 !.workload_history = sched'.workload_history]
                      r == ConcreteSelect(AdaptiveSub(sched'.current_scheduler_name), st1, ci,
                                          cores[ci].current_load, shuffled, ready_queue,
                                          current_time, procs)
                  IN  /\ sched' = r.sched
                      /\ IF r.sel /= NoneVal
                         THEN /\ cores'[ci].current_process = r.sel
                              /\ ready_queue' = RemoveFirst(r.rq, r.sel)
                         ELSE /\ cores'[ci] = cores[ci]
                              /\ ready_queue' = r.rq
      ]_vars

\* C30 witness: an adaptive run that has adapted twice, the second time to a
\* policy other than load_balancing, and has then assigned a process.
C30_Witness ==
    /\ scheduler.kind = "adaptive"
    /\ Adaptations(sched) >= 2
    /\ sched.current_scheduler_name /= "load_balancing"
    /\ sched.last_adaptation_time >= 2 * scheduler.adaptation_interval
    /\ \E c \in CoreIds : cores[c].current_process /= NoneVal

\* C31: every adaptation records the system load LOW when queue length /
\* cores < 1, MEDIUM when < 3, HIGH otherwise, and the workload
\* CPU_INTENSIVE when more than 60% of the analysed ready queue is CPU-bound,
\* else IO_INTENSIVE when more than 60% is IO-bound, else SHORT_JOBS when the
\* average remaining time is < 10, else LONG_JOBS when it is > 50, else
\* MIXED, and MIXED for an empty queue.
C31_AdaptiveClassification ==
    [][Len(sched'.system_state_history) = Len(sched.system_state_history) + 1 =>
         LET len == Len(ready_queue)
             cpu == Cardinality({i \in 1..len : procs[ready_queue[i]].process_type = "cpu_bound"})
             io == Cardinality({i \in 1..len : procs[ready_queue[i]].process_type = "io_bound"})
             total == SumList(ready_queue, [p \in Pids |-> procs[p].remaining_time])
             load == IF len < 1 * num_cores THEN "low_load"
                     ELSE IF len < 3 * num_cores THEN "medium_load"
                     ELSE "high_load"
             workload == IF len = 0 THEN "mixed"
                         ELSE IF 100 * cpu > 60 * len THEN "cpu_intensive"
                         ELSE IF 100 * io > 60 * len THEN "io_intensive"
                         ELSE IF total < 10 * len THEN "short_jobs"
                         ELSE IF total > 50 * len THEN "long_jobs"
                         ELSE "mixed"
         IN  /\ sched'.system_state_history = Append(sched.system_state_history, load)
             /\ sched'.workload_history = Append(sched.workload_history, workload)
      ]_vars

\* C31 witness: an adaptation that classified a queue of five processes,
\* exactly 60% of them CPU-bound, as MIXED under HIGH load.
C31_Witness ==
    /\ sched.workload_history = <<"mixed">>
    /\ sched.system_state_history = <<"high_load">>
    /\ Len(ready_queue) = 5
    /\ Cardinality({i \in 1..5 : procs[ready_queue[i]].process_type = "cpu_bound"}) = 3

\* C32: whenever round_robin is the policy in force (standalone or as the
\* AdaptiveScheduler's current scheduler), a process that executed without
\* completing and was preempted is at the tail of rr_queue, and the next
\* select_process returns another process when rr_queue holds one.
C32_PreemptedGoesToTail ==
    [][(pc = "execute" /\ Active(scheduler, sched).kind = "round_robin"
           /\ ~IsIdle(cores[ci])
           /\ Len(events') = Len(events) + 1
           /\ ~IsCompleted(procs'[cores[ci].current_process])) =>
         LET cur == cores[ci].current_process
             q == sched'.rr_queue
         IN  /\ ready_queue' = Append(ready_queue, cur)
             /\ q /= <<>> /\ q[Len(q)] = cur
             /\ (\E i \in 1..Len(q) : q[i] /= cur) =>
                    RRSelect(sched', ready_queue').sel /= cur
      ]_vars

\* C33: a select_process call of the RoundRobinScheduler that follows
\* another one with the same ready queue and nothing in between returns the
\* same process and leaves rr_queue as it was, with no entry twice.
C33_RRSelectIdempotent ==
    [][(scheduler.kind = "round_robin"
           /\ events /= <<>> /\ events[Len(events)].kind = "select"
           /\ Len(events') = Len(events) + 1 /\ events'[Len(events')].kind = "select") =>
         /\ events'[Len(events')].pid = events[Len(events)].pid
         /\ sched'.rr_queue = sched.rr_queue
         /\ \A p \in Pids : Occurrences(p, sched'.rr_queue) <= 1
      ]_vars

\* C33 witness: after a rotation, two selections in a row on a ready queue of
\* at least two processes returned a process.
C33_Witness ==
    /\ scheduler.kind = "round_robin"
    /\ Len(events) = 4 /\ Len(ready_queue) >= 2
    /\ events[2].kind = "rotate"
    /\ events[3].kind = "select" /\ events[4].kind = "select"
    /\ events[4].pid /= NoneVal /\ events[4].pid /= events[1].pid

\* The position of pid x in the list q (0 when it is not there).
IndexOf(x, q) ==
    IF InList(x, q) THEN CHOOSE i \in 1..Len(q) : q[i] = x /\ \A j \in 1..(i - 1) : q[j] /= x
    ELSE 0

\* C34: in a Round Robin run rr_queue always holds each process at most once
\* and no TERMINATED process, and a step keeps the processes that stay in
\* rr_queue in their order, new ones going behind them, except for the
\* process the step rotates to the tail.
C34_RotationQueueSound ==
    [][(scheduler.kind = "round_robin" /\ pc \notin {"idle", "done", "error"}) =>
         LET q == sched.rr_queue
             q1 == sched'.rr_queue
             rotated == IF pc = "execute" /\ ~IsIdle(cores[ci])
                        THEN {cores[ci].current_process} ELSE {}
         IN  /\ \A p \in Pids : Occurrences(p, q1) <= 1
             /\ \A i \in 1..Len(q1) : ~IsCompleted(procs'[q1[i]])
             /\ \A a, b \in Pids \ rotated :
                   (InList(a, q1) /\ InList(b, q1) /\ IndexOf(a, q1) < IndexOf(b, q1)) =>
                      \/ (InList(a, q) /\ InList(b, q) /\ IndexOf(a, q) < IndexOf(b, q))
                      \/ ~InList(b, q)
      ]_vars

\* C35: under Load Balancing core_loads[c] is always the sum of the remaining
\* times of the processes bound to core c in process_assignments, a process
\* that is on a core and unfinished is bound to a core, and once every
\* process has completed no process is bound and every core load is 0.
C35_CoreLoadsTrackRemaining ==
    (scheduler.kind = "load_balancing" /\ pc \notin {"idle", "error"}) =>
        /\ \A c \in CoreIds :
              sched.core_loads[c] =
                  SumOver({p \in Pids : sched.process_assignments[p] = c},
                          [p \in Pids |-> procs[p].remaining_time])
        /\ \A c \in CoreIds :
              LET p == cores[c].current_process
              IN  (p /= NoneVal /\ ~IsCompleted(procs[p])) =>
                     sched.process_assignments[p] \in CoreIds
        /\ (\A p \in Pids : IsCompleted(procs[p])) =>
              /\ \A p \in Pids : sched.process_assignments[p] = NoneVal
              /\ \A c \in CoreIds : sched.core_loads[c] = 0

C39_PrioritySelection ==
    [][(scheduler.kind = "priority" /\ pc \notin {"idle", "done", "error"}) =>
         LET Eff(st, p, now) ==
                 IF scheduler.aging
                 THEN Max2(0, AgingScale * procs[p].priority - (now - st.process_wait_times[p]))
                 ELSE AgingScale * procs[p].priority
             NotAfter(a, b) ==
                 \/ Eff(sched', a, current_time) < Eff(sched', b, current_time)
                 \/ /\ Eff(sched', a, current_time) = Eff(sched', b, current_time)
                    /\ \/ procs[a].arrival_time < procs[b].arrival_time
                       \/ procs[a].arrival_time = procs[b].arrival_time /\ a <= b
             ready == {ready_queue[i] : i \in 1..Len(ready_queue)}
             waiting == ready \cap {ready_queue'[i] : i \in 1..Len(ready_queue')}
         IN  /\ (pc = "assign" /\ IsIdle(cores[ci]) /\ ready_queue /= <<>>) =>
                   LET sel == cores'[ci].current_process
                   IN  /\ sel \in ready
                       /\ \A q \in ready : NotAfter(sel, q)
                       /\ \A q \in ready : sched'.process_wait_times[q] /= NoneVal
             /\ \A p \in waiting :
                   sched.process_wait_times[p] /= NoneVal =>
                      /\ sched'.process_wait_times[p] = sched.process_wait_times[p]
                      /\ Eff(sched', p, current_time') <= Eff(sched, p, current_time)
                      /\ Eff(sched', p, current_time') >= 0
             /\ \A p \in Pids :
                   (~IsCompleted(procs[p]) /\ IsCompleted(procs'[p])) =>
                      sched'.process_wait_times[p] = NoneVal
      ]_vars

\* C39 witness: with aging, a process was selected while a ready process of
\* better static priority waited, its own wait having brought its effective
\* priority below that process's.
C39_Witness ==
    /\ scheduler.kind = "priority" /\ scheduler.aging
    /\ pc = "execute"
    /\ \E c \in CoreIds : \E i \in 1..Len(ready_queue) :
          LET sel == cores[c].current_process
              q == ready_queue[i]
          IN  /\ sel /= NoneVal
              /\ procs[sel].remaining_time = procs[sel].burst_time
              /\ procs[q].priority < procs[sel].priority
              /\ sched.process_wait_times[sel] /= NoneVal
              /\ sched.process_wait_times[q] /= NoneVal
              /\ AgingScale * procs[sel].priority - (current_time - sched.process_wait_times[sel])
                    < AgingScale * procs[q].priority - (current_time - sched.process_wait_times[q])

\* C40: under the AdaptiveScheduler every completion appends the process's
\* turnaround time to recent_turnaround_times, which keeps the last 20
\* entries in completion order, and to the algorithm_performance log of the
\* scheduler that is current at that moment, the other logs staying as they
\* are; so the rolling log is as long as the completions up to 20.
C40_AdaptiveTurnaroundLogs ==
    [][(scheduler.kind = "adaptive" /\ pc \notin {"idle", "done", "error"}) =>
         /\ IF Len(completed_processes') = Len(completed_processes) + 1
            THEN LET p == completed_processes'[Len(completed_processes')]
                     full == Append(sched.recent_turnaround_times, procs'[p].turnaround_time)
                     name == sched.current_scheduler_name
                 IN  /\ sched'.recent_turnaround_times =
                           SubSeq(full, Max2(1, Len(full) - 19), Len(full))
                     /\ sched'.algorithm_performance =
                           [sched.algorithm_performance EXCEPT
                               ![name] = Append(@, procs'[p].turnaround_time)]
            ELSE /\ sched'.recent_turnaround_times = sched.recent_turnaround_times
                 /\ sched'.algorithm_performance = sched.algorithm_performance
         /\ Len(sched'.recent_turnaround_times) <= 20
         /\ Len(sched'.recent_turnaround_times) = Min2(20, Len(completed_processes'))
      ]_vars

\* C40 witness: more than 20 processes have completed under two policies
\* and the rolling log holds 20 entries, the oldest one dropped.
C40_Witness ==
    /\ scheduler.kind = "adaptive"
    /\ Len(completed_processes) > 20
    /\ Len(sched.recent_turnaround_times) = 20
    /\ sched.recent_turnaround_times[1] /=
          procs[completed_processes[1]].turnaround_time
    /\ Cardinality({n \in PolicyNames : sched.algorithm_performance[n] /= <<>>}) >= 2

====
